---- MODULE Spec2Model ----
(***************************************************************************)
(* A model of the DynamoDB data-access layer of src/lib/dao.ts             *)
(* (DynamoIndex / DynamoDao) together with the record codec of             *)
(* src/lib/serializer.ts it relies on and the paging loop documented in    *)
(* the README.                                                             *)
(*                                                                         *)
(* One operation runs at a time: from the idle state a caller starts a     *)
(* list, a lookup, the README paging loop, a persist, a get or a           *)
(* createTableIfNeeded, and the operation then advances one await / yield  *)
(* at a time against a nondeterministic backend.                           *)
(***************************************************************************)
EXTENDS Integers, Sequences, FiniteSets, TLC

VARIABLES
    tableSize,     \* backend: number of rows a scan / query of the table serves
    tableStatus,   \* backend: "ABSENT", "CREATING", "UPDATING" or "ACTIVE"
    damaged,       \* backend: the row whose stored item lacks an attribute (0: none)
    op,            \* the operation the caller started ("none" before)
    pc,            \* position of that operation
    index,         \* the index (or the table) the current list / lookup runs on
    options,       \* options of the current list / lookup invocation
    params,        \* params of the current fetch frame
    onMore,        \* onMore of the current fetch frame: "caller" or "default"
    res,           \* response the current fetch frame awaited
    idx,           \* index of the next item of res.Items the frame yields
    requests,      \* scan / query requests of the current invocation, in order
    pages,         \* responses of the current invocation, in order
    yielded,       \* records the generator yielded in the current invocation
    onMoreCalls,   \* tokens the caller's onMore received in the current invocation
    pulls,         \* next() calls the consumer made on the current invocation's generator
    hookCalls,     \* requests the override hook was handed in the current invocation
    startFrom,     \* README loop: its startFrom variable
    seen,          \* README loop: table rows whose record some list call yielded
    input,         \* persist: length of the input sequence
    pulled,        \* persist: number of records pulled from the input so far
    chunk,         \* persist: chunk under construction by chunksOf
    writeCalls,    \* persist: batchWriteItem requests issued, in order
    applied,       \* backend: item lists of the bulk writes it has applied
    inflight,      \* backend: bulk-write calls issued and not yet settled
    key,           \* get: the key asked for
    getCalls,      \* get: getItem requests issued, in order
    getRes,        \* get: the Item of the getItem response
    result,        \* get: the value the promise resolved with
    invocation,    \* createTableIfNeeded: number of invocations started
    ddl,           \* createTableIfNeeded: backend calls of the current invocation
    creates,       \* createTableIfNeeded: createTable calls over all invocations
    firstReport,   \* createTableIfNeeded: what the first describeTable ever reported
    rival,         \* createTableIfNeeded: a second invocation running alongside the first
    indexes,       \* createTableIfNeeded: the indexes the invocation was called with
    codecCall,     \* codec: the call made on a codec: its function, codec and argument
    codecOut,      \* codec: the outcome of that call
    codecBack,     \* codec: the outcome of deserializing what serialize returned
    raised,        \* the error the backend raised last (<<>> when none)
    error          \* the error the operation failed with (<<>> when none)

vars == <<tableSize, tableStatus, damaged, op, pc, index, options, params, onMore, res, idx,
          requests, pages, yielded, onMoreCalls, pulls, hookCalls, startFrom, seen, input,
          pulled,
          chunk, writeCalls, applied, inflight, key, getCalls, getRes, result,
          invocation, ddl, creates, firstReport, rival, indexes, codecCall, codecOut, codecBack,
          raised, error>>

listVars == <<index, options, params, onMore, res, idx, requests, pages, yielded, onMoreCalls,
              pulls, hookCalls>>
loopVars == <<startFrom, seen>>
persistVars == <<input, pulled, chunk, writeCalls, applied, inflight>>
getVars == <<key, getCalls, getRes, result>>
createVars == <<invocation, ddl, creates, firstReport, rival, indexes>>
backendVars == <<tableSize, tableStatus, damaged>>
codecVars == <<codecCall, codecOut, codecBack>>
errorVars == <<raised, error>>

(***************************************************************************)
(* Bounds of the model.                                                    *)
(***************************************************************************)
MaxTable == 4        \* rows in the table
MaxLimit == 3        \* largest limit option of a list / lookup
PageLimit == 2       \* limit of the README paging loop (10 in the README)
MaxRecords == 51     \* longest persist input
MaxInvocations == 2  \* sequential createTableIfNeeded invocations
MaxNumber == 11      \* the small numbers a codec is given lie in -MaxNumber..MaxNumber
MaxList == 2         \* longest list a list codec is given

\* the chunk size persist passes to chunksOf
ChunkSize == 25

(***************************************************************************)
(* JavaScript values.  undefined is the empty sequence; every other value  *)
(* is a record tagged with its kind, so that any two values compare.  An   *)
(* option that is given is <<v>>.  A function either returns a value or    *)
(* throws one.                                                             *)
(***************************************************************************)
Undefined == <<>>
Some(v) == <<v>>
IsDefined(o) == o # Undefined

Str(text) == [string |-> text]
Num(n) == [number |-> n]
NaN == [NaN |-> TRUE]
Bool(b) == [boolean |-> b]
Date(time) == [date |-> time]
Arr(items) == [array |-> items]
Obj(attrs) == [object |-> attrs]

Kind(v) == IF v = Undefined THEN "undefined" ELSE CHOOSE k \in DOMAIN v : TRUE

Return(v) == [return |-> v]
Throw(e) == [throw |-> e]
Threw(outcome) == "throw" \in DOMAIN outcome

\* reading a property of undefined, or calling a method the value does not have
TypeError == [name |-> "TypeError"]

Min(a, b) == IF a < b THEN a ELSE b

Digit(d) ==
    CASE d = 0 -> "0" [] d = 1 -> "1" [] d = 2 -> "2" [] d = 3 -> "3" [] d = 4 -> "4"
      [] d = 5 -> "5" [] d = 6 -> "6" [] d = 7 -> "7" [] d = 8 -> "8" [] d = 9 -> "9"

DigitValue(c) ==
    CASE c = "0" -> 0 [] c = "1" -> 1 [] c = "2" -> 2 [] c = "3" -> 3 [] c = "4" -> 4
      [] c = "5" -> 5 [] c = "6" -> 6 [] c = "7" -> 7 [] c = "8" -> 8 [] c = "9" -> 9

Digits == {"0", "1", "2", "3", "4", "5", "6", "7", "8", "9"}

\* the decimal text of a natural number
RECURSIVE Decimal(_)
Decimal(n) == IF n < 10 THEN Digit(n) ELSE Decimal(n \div 10) \o Digit(n % 10)

\* the value of a non-empty text of digits
RECURSIVE DecimalValue(_)
DecimalValue(text) ==
    IF Len(text) = 1 THEN DigitValue(text)
    ELSE 10 * DecimalValue(SubSeq(text, 1, Len(text) - 1))
         + DigitValue(SubSeq(text, Len(text), Len(text)))

IsDecimal(text) ==
    Len(text) > 0 /\ \A i \in 1..Len(text) : SubSeq(text, i, i) \in Digits

\* String(value): the text of an integer, of NaN, of undefined, of a string, of a boolean
String(value) ==
    CASE Kind(value) = "number" ->
            IF value.number < 0 THEN "-" \o Decimal(-value.number) ELSE Decimal(value.number)
      [] Kind(value) = "NaN" -> "NaN"
      [] Kind(value) = "undefined" -> "undefined"
      [] Kind(value) = "string" -> value.string
      [] Kind(value) = "boolean" -> IF value.boolean THEN "true" ELSE "false"

\* a Number that reads no sign
NumberUnsigned(value) ==
    IF Kind(value) # "string" THEN NaN
    ELSE IF value.string = "" THEN Num(0)
    ELSE IF IsDecimal(value.string) THEN Num(DecimalValue(value.string))
    ELSE NaN

\* Number(value) of undefined or of a text of digits, "-" and letters: the empty text is
\* 0, a malformed text is NaN
Number(value) ==
    IF Kind(value) # "string" THEN NaN
    ELSE LET text == value.string
         IN IF text = "" THEN Num(0)
            ELSE IF IsDecimal(text) THEN Num(DecimalValue(text))
            ELSE IF /\ Len(text) > 1
                    /\ SubSeq(text, 1, 1) = "-"
                    /\ IsDecimal(SubSeq(text, 2, Len(text)))
                 THEN Num(-DecimalValue(SubSeq(text, 2, Len(text))))
            ELSE NaN

(***************************************************************************)
(* Field codecs (src/lib/serializer.ts).  A wire value is a record with    *)
(* one field, its tag: [S |-> text], [N |-> decimal text], [BOOL |-> b],   *)
(* [NULL |-> TRUE], [L |-> wire values], [M |-> name -> wire value].  A    *)
(* tag that carries undefined reads as undefined, like a tag that is not   *)
(* there.                                                                  *)
(***************************************************************************)
\* the value a wire value carries under a tag, as a JavaScript value
Tagged(type, payload) ==
    CASE type = "S" -> Str(payload)
      [] type = "N" -> Str(payload)
      [] type = "BOOL" -> Bool(payload)
      [] type = "NULL" -> Bool(payload)
      [] type = "L" -> Arr(payload)
      [] type = "M" -> Obj(payload)

\* the JavaScript value as a wire value carries it
Payload(value) == value[Kind(value)]

\* {[type]: undefined}: the wire value has the tag and nothing under it
Void(type) == [void |-> type]

\* DynamoRawSerializer.deserialize: value[this.type]
RawDeserialize(type, value) ==
    IF value = Undefined THEN Throw(TypeError)
    ELSE IF type \in DOMAIN value THEN Return(Tagged(type, value[type]))
    ELSE Return(Undefined)

\* DynamoRawSerializer.serialize: {[this.type]: value}
RawSerialize(type, value) ==
    IF value = Undefined THEN Return(Void(type)) ELSE Return(type :> Payload(value))

\* the predefined field codecs, and a record codec used as the codec of a field
string == [kind |-> "raw", type |-> "S"]
boolean == [kind |-> "raw", type |-> "BOOL"]
number == [kind |-> "number", type |-> "N"]
date == [kind |-> "date", type |-> "N"]
list(serializer) == [kind |-> "list", type |-> "L", of |-> serializer]
optional(serializer) == [kind |-> "optional", type |-> "NULL", of |-> serializer]
record(self) == [kind |-> "record", type |-> "M", self |-> self]

\* the record codecs declared with new DynamoSerializer, by name: the fields in
\* declaration order, each with its codec or with none
Declared ==
    [product |-> <<[field |-> "type", codec |-> string],
                   [field |-> "code", codec |-> number],
                   [field |-> "price", codec |-> number]>>,
     user |-> <<[field |-> "surname", codec |-> string],
                [field |-> "firstNames", codec |-> list(string)],
                [field |-> "dateOfBirth", codec |-> date],
                [field |-> "mentor", codec |-> optional(record("user"))],
                [field |-> "rightHanded", codec |-> boolean]>>,
     parcel |-> <<[field |-> "label", codec |-> string],
                  [field |-> "weight", codec |-> number],
                  [field |-> "tags", codec |-> list(string)],
                  [field |-> "content", codec |-> record("product")],
                  [field |-> "note", codec |-> optional(string)],
                  [field |-> "scratch", codec |-> Undefined]>>]

Range(seq) == {seq[i] : i \in DOMAIN seq}

\* the property names an object gets from assignments in this order: a name assigned
\* again keeps its place
RECURSIVE KeyOrder(_)
KeyOrder(names) ==
    IF names = <<>> THEN <<>>
    ELSE IF names[Len(names)] \in Range(SubSeq(names, 1, Len(names) - 1))
    THEN KeyOrder(SubSeq(names, 1, Len(names) - 1))
    ELSE Append(KeyOrder(SubSeq(names, 1, Len(names) - 1)), names[Len(names)])

\* names.join(sep)
RECURSIVE Join(_, _)
Join(names, sep) ==
    IF names = <<>> THEN ""
    ELSE IF Len(names) = 1 THEN names[1]
    ELSE Join(SubSeq(names, 1, Len(names) - 1), sep) \o sep \o names[Len(names)]

\* the codec a mapping has under the name, undefined when it has none
CodecOf(mapping, field) ==
    IF \E i \in DOMAIN mapping : mapping[i].field = field
    THEN mapping[CHOOSE i \in DOMAIN mapping : mapping[i].field = field].codec
    ELSE Undefined

\* a sub-codec that carries every field of its parent
subSerializerWhole(self, keys) ==
    [self |-> self \o "[" \o Join(keys, ",") \o "]", serializers |-> Declared[self]]

\* subSerializer(keys): a record codec of its own whose mapping has, under each of the
\* keys, what the parent's mapping has under it
subSerializer(self, keys) ==
    [self |-> self \o "[" \o Join(keys, ",") \o "]",
     serializers |-> [i \in DOMAIN KeyOrder(keys) |->
                        [field |-> KeyOrder(keys)[i],
                         codec |-> CodecOf(Declared[self], KeyOrder(keys)[i])]]]

(***************************************************************************)
(* The DAO of the model: table ProductTable, the product codec             *)
(* {type: string, code: number, price: number}, keyed by [type, code], and *)
(* the indexes made from it.                                               *)
(***************************************************************************)
tableName == "ProductTable"
keyspec == <<"type", "code">>
serializer == "product"

\* the DAO as the index it is: super(dynamoDb, tableName, serializer, keyspec)
TableIndex ==
    [name |-> Undefined, keyspec |-> keyspec, type |-> "GLOBAL", projection |-> Undefined,
     serializer |-> [self |-> serializer, serializers |-> Declared[serializer]]]

\* (projection ?? Object.keys(serializers)).filter(name => keys.indexOf(name) < 0)
sanitizedProjection(projection, keys) ==
    SelectSeq(IF projection = Undefined
              THEN [i \in DOMAIN Declared[serializer] |-> Declared[serializer][i].field]
              ELSE projection[1],
              LAMBDA name : name \notin Range(keys))

\* new DynamoIndex(dynamoDb, tableName, serializer, keyspec, type, projection, name)
DynamoIndex(sub, indexKeys, type, projection, name) ==
    [name |-> Some(name), keyspec |-> indexKeys, type |-> type, projection |-> projection,
     serializer |-> sub]

\* dao.localIndex(name, spec, projection): the table's partition key with another sort
\* key
localIndex(name, spec, projection) ==
    DynamoIndex(subSerializer(serializer,
                              sanitizedProjection(projection, keyspec \o <<spec>>)
                                  \o (keyspec \o <<spec>>)),
                <<keyspec[1], spec>>, "LOCAL",
                IF IsDefined(projection)
                THEN Some(sanitizedProjection(projection, keyspec \o <<spec>>))
                ELSE Undefined,
                name)

\* dao.globalIndex(name, spec, projection): keys of its own
globalIndex(name, spec, projection) ==
    DynamoIndex(subSerializer(serializer,
                              sanitizedProjection(projection, keyspec \o spec)
                                  \o (keyspec \o spec)),
                spec, "GLOBAL",
                IF IsDefined(projection)
                THEN Some(sanitizedProjection(projection, keyspec \o spec))
                ELSE Undefined,
                name)

\* the indexes of the model: the index of the tests, projecting everything; indexes
\* on the type that project the keys only, or the keys and the price; an index on the
\* price that projects what is a key already
priceIndex == localIndex("priceIndex", "price", Undefined)
typeIndex == globalIndex("typeIndex", <<"type">>, Some(<<>>))
typePriceIndex == globalIndex("typePriceIndex", <<"type">>, Some(<<"price", "code">>))
priceKeysIndex == localIndex("priceKeysIndex", "price", Some(<<"price">>))

\* the indexes list / lookup are called on
Indexes == {TableIndex, priceIndex, typeIndex}

\* the index lists createTableIfNeeded is called with
IndexLists == {<<>>, <<priceIndex, typePriceIndex>>, <<typeIndex, priceKeysIndex>>}

\* the record codecs the indexes made for themselves, by name
Projected ==
    (priceIndex.serializer.self :> priceIndex.serializer.serializers)
    @@ (typeIndex.serializer.self :> typeIndex.serializer.serializers)
    @@ (typePriceIndex.serializer.self :> typePriceIndex.serializer.serializers)
    @@ (priceKeysIndex.serializer.self :> priceKeysIndex.serializer.serializers)

\* this.serializers of the record codec of that name
Mapping(self) == IF self \in DOMAIN Declared THEN Declared[self] ELSE Projected[self]

\* every record codec there is: the declared ones and the ones the indexes made
Schemas == [self \in DOMAIN Declared \cup DOMAIN Projected |-> Mapping(self)]

\* this.serializers[field]
serializers(self, field) == CodecOf(Mapping(self), field)

\* Object.keys(this.serializers)
fields(self) == [i \in DOMAIN Mapping(self) |-> Mapping(self)[i].field]

typeOf(self, field) ==
    IF serializers(self, field) = Undefined THEN Undefined
    ELSE serializers(self, field).type

SerializationError(msg, cause) == [name |-> "SerializationError", message |-> msg, cause |-> cause]

\* entity[field]
Property(entity, field) ==
    IF Kind(entity) = "object" /\ field \in DOMAIN entity.object THEN entity.object[field]
    ELSE Undefined

\* an assign that skips every falsy value
assignTruthy(target, name, value) ==
    IF value \in {Undefined, Num(0), Str(""), Bool(FALSE), NaN} THEN target
    ELSE (name :> value) @@ target

\* an assign that assigns undefined too
assignAlways(target, name, value) == (name :> value) @@ target

\* value === undefined ? target : Object.assign(target, {[name]: value})
assign(target, name, value) ==
    IF value = Undefined THEN target ELSE (name :> value) @@ target

RECURSIVE CodecSerialize(_, _)
RECURSIVE CodecDeserialize(_, _)

\* a catch that lets the error through as it is
RethrowBare(out, msg) == out

\* catch (error) { throw new SerializationError(msg, error) }
Rethrow(out, msg) == IF Threw(out) THEN Throw(SerializationError(msg, out.throw)) ELSE out

serializeField(self, field, value) ==
    IF serializers(self, field) = Undefined THEN Return(Undefined)
    ELSE Rethrow(CodecSerialize(serializers(self, field), value),
                 "Failed to serialize field: " \o field)

deserializeField(self, field, value) ==
    IF serializers(self, field) = Undefined THEN Return(Undefined)
    ELSE Rethrow(CodecDeserialize(serializers(self, field), value),
                 "Failed to deserialize field: " \o field)

\* one step of a reduce: the accumulator with the field assigned, unless a step threw
Assigned(acc, field, out) ==
    IF Threw(acc) THEN acc
    ELSE IF Threw(out) THEN out
    ELSE Return(assign(acc.return, field, out.return))

\* this.fields.reduce(...) of serialize, over the first n fields
RECURSIVE SerializeFields(_, _, _)
SerializeFields(self, entity, n) ==
    IF n = 0 THEN Return(<<>>)
    ELSE Assigned(SerializeFields(self, entity, n - 1), fields(self)[n],
                  IF entity = Undefined THEN Throw(TypeError)
                  ELSE serializeField(self, fields(self)[n],
                                      Property(entity, fields(self)[n])))

\* DynamoRawSerializer.map.serialize(...)
Wrapped(type, out) == IF Threw(out) THEN out ELSE Return(type :> out.return)

serialize(self, entity) == Wrapped("M", SerializeFields(self, entity, Len(fields(self))))

\* attrs.M[field]
Entry(attrs, field) ==
    IF attrs = Undefined THEN Throw(TypeError)
    ELSE IF "M" \notin DOMAIN attrs THEN Throw(TypeError)
    ELSE IF field \in DOMAIN attrs.M THEN Return(attrs.M[field])
    ELSE Return(Undefined)

\* this.fields.reduce(...) of deserialize, over the first n fields
RECURSIVE DeserializeFields(_, _, _)
DeserializeFields(self, attrs, n) ==
    IF n = 0 THEN Return(<<>>)
    ELSE Assigned(DeserializeFields(self, attrs, n - 1), fields(self)[n],
                  IF Threw(Entry(attrs, fields(self)[n])) THEN Throw(TypeError)
                  ELSE deserializeField(self, fields(self)[n],
                                        Entry(attrs, fields(self)[n]).return))

\* the construction function: an object with the attributes it is handed
factory(self, attrs) == Obj(attrs)

Constructed(self, out) == IF Threw(out) THEN out ELSE Return(factory(self, out.return))

deserialize(self, attrs) ==
    Constructed(self, DeserializeFields(self, attrs, Len(fields(self))))

\* one step of a map: the items so far with the next one, unless a step threw
Appended(acc, out) ==
    IF Threw(acc) THEN acc
    ELSE IF Threw(out) THEN out
    ELSE Return(Append(acc.return, out.return))

\* value.map((item) => serializer.serialize(item)), over the first n items
RECURSIVE MapSerialize(_, _, _)
MapSerialize(codec, items, n) ==
    IF n = 0 THEN Return(<<>>)
    ELSE Appended(MapSerialize(codec, items, n - 1), CodecSerialize(codec, items[n]))

\* value.map((item) => serializer.deserialize(item)), over the first n items
RECURSIVE MapDeserialize(_, _, _)
MapDeserialize(codec, items, n) ==
    IF n = 0 THEN Return(<<>>)
    ELSE Appended(MapDeserialize(codec, items, n - 1), CodecDeserialize(codec, items[n]))

\* Number(...) of the text read, new Date(...) of the number read
Converted(out, kind) ==
    IF Threw(out) THEN out
    ELSE IF kind = "number" THEN Return(Number(out.return))
    ELSE IF kind = "date" THEN Return(Date(out.return))
    ELSE Return(Arr(out.return))

\* DynamoRawSerializer.list.deserialize(value).map(...)
ListItems(codec, out) ==
    IF Threw(out) THEN out
    ELSE IF out.return = Undefined THEN Throw(TypeError)
    ELSE Converted(MapDeserialize(codec, out.return.array, Len(out.return.array)), "list")

\* the serialize of a field codec
CodecSerialize(codec, value) ==
    CASE codec.kind = "raw" -> RawSerialize(codec.type, value)
      [] codec.kind = "number" -> RawSerialize("N", Str(String(value)))
      [] codec.kind = "date" ->
            IF Kind(value) = "date" THEN CodecSerialize(number, value.date)
            ELSE Throw(TypeError)
      [] codec.kind = "list" ->
            IF Kind(value) = "array"
            THEN Wrapped("L", MapSerialize(codec.of, value.array, Len(value.array)))
            ELSE Throw(TypeError)
      [] codec.kind = "optional" ->
            IF value = Undefined THEN RawSerialize("NULL", Bool(TRUE))
            ELSE CodecSerialize(codec.of, value)
      [] codec.kind = "record" -> serialize(codec.self, value)

\* the deserialize of a field codec
CodecDeserialize(codec, value) ==
    CASE codec.kind = "raw" -> RawDeserialize(codec.type, value)
      [] codec.kind = "number" -> Converted(RawDeserialize("N", value), "number")
      [] codec.kind = "date" -> Converted(CodecDeserialize(number, value), "date")
      [] codec.kind = "list" -> ListItems(codec.of, RawDeserialize("L", value))
      [] codec.kind = "optional" ->
            IF value = Undefined THEN Return(Undefined)
            ELSE IF RawDeserialize("NULL", value) = Return(Bool(TRUE)) THEN Return(Undefined)
            ELSE CodecDeserialize(codec.of, value)
      [] codec.kind = "record" -> deserialize(codec.self, value)

(***************************************************************************)
(* What the DAO does with its codec and its rows.                          *)
(***************************************************************************)
\* this.serializer.serializeField(field, value)!  No codec of the product codec throws
\* on serialize, so the call returns.
serializeValue(ix, field, value) == serializeField(ix.serializer.self, field, value).return

\* the records the model works with: record i is the i-th of its sequence
TypeName(i) == "soap"
Entity(i) == Obj([type |-> Str(TypeName(i)), code |-> Num(i), price |-> Num(7 * i)])

\* backend: the stored item of row i of the table
Row(i) ==
    [type |-> [S |-> TypeName(i)], code |-> [N |-> Decimal(i)], price |-> [N |-> Decimal(7 * i)]]

\* backend: the item it serves for row i; a damaged row was stored without its price
StoredRow(i) ==
    IF i = damaged THEN [name \in DOMAIN Row(i) \ {"price"} |-> Row(i)[name]] ELSE Row(i)

BackendErrors ==
    {[name |-> "ProvisionedThroughputExceededException"], [name |-> "InternalServerError"]}

(***************************************************************************)
(* Initial state: a backend in some state, and no operation started.       *)
(* Rows exist only in a table that is there.                               *)
(***************************************************************************)
NoRival == [pc |-> "off", ddl |-> <<>>, error |-> Undefined]
NoResponse == [Items |-> <<>>, LastEvaluatedKey |-> Undefined]
NoOptions == [limit |-> Undefined, startFrom |-> Undefined, onMore |-> FALSE,
              overwrite |-> FALSE, condition |-> Undefined]

\* the DAO is the unnamed index of its table

Init ==
    /\ tableStatus \in {"ABSENT", "CREATING", "UPDATING", "ACTIVE"}
    /\ tableSize \in 0..MaxTable
    /\ (tableStatus # "ACTIVE" => tableSize = 0)
    /\ damaged \in {0} \cup ({2} \cap (1..tableSize))
    /\ op = "none"
    /\ pc = "idle"
    /\ index = TableIndex
    /\ options = NoOptions
    /\ params = Undefined
    /\ onMore = "default"
    /\ res = NoResponse
    /\ idx = 1
    /\ requests = <<>>
    /\ pages = <<>>
    /\ yielded = <<>>
    /\ onMoreCalls = <<>>
    /\ pulls = 0
    /\ hookCalls = <<>>
    /\ startFrom = Undefined
    /\ seen = {}
    /\ input = 0
    /\ pulled = 0
    /\ chunk = <<>>
    /\ writeCalls = <<>>
    /\ applied = <<>>
    /\ inflight = 0
    /\ key = <<>>
    /\ getCalls = <<>>
    /\ getRes = Undefined
    /\ result = Undefined
    /\ invocation = 0
    /\ ddl = <<>>
    /\ creates = 0
    /\ firstReport = Undefined
    /\ rival = NoRival
    /\ indexes = <<>>
    /\ codecCall = Undefined
    /\ codecOut = Undefined
    /\ codecBack = Undefined
    /\ raised = Undefined
    /\ error = Undefined

(***************************************************************************)
(* DynamoIndex.list / lookup: the first-page request.                      *)
(***************************************************************************)
\* placeholders left without the reserved prefix
prefixNone(name) == name

\* const prefix = (name) => `dynamo_${name}`
prefix(name) == "dynamo_" \o name

\* the request a caller's override hook returns: the request it was given with a filter
\* that names its own placeholders, unprefixed, and that every row passes
FilterHook(request) ==
    LET names == IF "ExpressionAttributeNames" \in DOMAIN request
                 THEN request.ExpressionAttributeNames ELSE <<>>
        values == IF "ExpressionAttributeValues" \in DOMAIN request
                  THEN request.ExpressionAttributeValues ELSE <<>>
    IN [FilterExpression |-> "#sk > :value",
        ExpressionAttributeNames |-> ("#sk" :> "price") @@ names,
        ExpressionAttributeValues |-> (":value" :> [N |-> "0"]) @@ values] @@ request

\* options?.overwrite ?? identity
overwrite(opts, request) == IF opts.overwrite THEN FilterHook(request) ELSE request

partitionKey(ix) == ix.keyspec[1]
sortKey(ix) == ix.keyspec[2]

conditionToString(matcher, name) ==
    IF matcher = "begins_with"
    THEN "begins_with(" \o name \o ", :" \o prefix("value") \o ")"
    ELSE IF matcher = "between"
    THEN name \o " between :" \o prefix("from") \o " and :" \o prefix("to")
    ELSE name \o " " \o matcher \o " :" \o prefix("value")

attributeValues(ix, condition) ==
    IF condition.matcher = "between"
    THEN (":" \o prefix("from")) :> serializeValue(ix, sortKey(ix), condition.value[1])
         @@ (":" \o prefix("to")) :> serializeValue(ix, sortKey(ix), condition.value[2])
    ELSE (":" \o prefix("value")) :> serializeValue(ix, sortKey(ix), condition.value[1])

\* the request list() builds
ScanParams(ix, opts) ==
    [TableName |-> tableName,
     IndexName |-> ix.name,
     ExclusiveStartKey |-> opts.startFrom,
     Limit |-> opts.limit]

\* the request list() hands to fetch
ScanInput(ix, opts) == overwrite(opts, ScanParams(ix, opts))

pkCondition == "#" \o prefix("pk") \o " = :" \o prefix("pk")

\* the request lookup() builds
QueryParams(ix, pk, opts) ==
    [TableName |-> tableName,
     IndexName |-> ix.name,
     ExclusiveStartKey |-> opts.startFrom,
     Limit |-> opts.limit,
     ExpressionAttributeNames |->
         IF IsDefined(opts.condition)
         THEN ("#" \o prefix("pk")) :> partitionKey(ix)
              @@ ("#" \o prefix("sk")) :> sortKey(ix)
         ELSE ("#" \o prefix("pk")) :> partitionKey(ix),
     ExpressionAttributeValues |->
         IF IsDefined(opts.condition)
         THEN (":" \o prefix("pk")) :> serializeValue(ix, partitionKey(ix), pk)
              @@ attributeValues(ix, opts.condition[1])
         ELSE (":" \o prefix("pk")) :> serializeValue(ix, partitionKey(ix), pk),
     KeyConditionExpression |->
         IF IsDefined(opts.condition)
         THEN pkCondition \o " and "
              \o conditionToString(opts.condition[1].matcher, "#" \o prefix("sk"))
         ELSE pkCondition]

\* the request lookup() hands to fetch
QueryInput(ix, pk, opts) == overwrite(opts, QueryParams(ix, pk, opts))

\* the partition key the lookups of the model ask for
LookupKey == Str("soap")

\* the onMore a fetch frame runs with: the one passed, or the default no-op
FrameOnMore(passed) == IF passed THEN "caller" ELSE "default"

Limits == {Undefined} \cup {Some(l) : l \in 1..MaxLimit}
Tokens == {Undefined} \cup {Some(k) : k \in 1..tableSize}
\* a condition's value is the list of its operands: one, or two for between
Matchers == {"=", "<", "<=", ">", ">=", "between", "begins_with"}
Conditions ==
    {Undefined} \cup {Some([matcher |-> m,
                            value |-> IF m = "between" THEN <<Num(5), Num(10)>>
                                     ELSE <<Num(0)>>]) :
                          m \in Matchers}

\* a new invocation starts with an empty history
StartFetch(ix, request, opts) ==
    /\ index' = ix
    /\ options' = opts
    /\ params' = request
    /\ onMore' = FrameOnMore(opts.onMore)
    /\ res' = NoResponse
    /\ idx' = 1
    /\ requests' = <<>>
    /\ pages' = <<>>
    /\ yielded' = <<>>
    /\ onMoreCalls' = <<>>
    /\ pulls' = 0
    /\ hookCalls' = <<>>
    /\ pc' = "fetch"

\* the calls made on an index with a projection of its own are the plain ones
Plain(ix, limit, from, more, hook) ==
    IsDefined(ix.projection) =>
        limit = Undefined /\ from = Undefined /\ ~more /\ ~hook

ListCall ==
    /\ pc = "idle"
    /\ \E ix \in Indexes, limit \in Limits, from \in Tokens, more \in BOOLEAN,
          hook \in BOOLEAN :
        /\ Plain(ix, limit, from, more, hook)
        /\ LET opts == [limit |-> limit, startFrom |-> from, onMore |-> more,
                        overwrite |-> hook, condition |-> Undefined]
           IN StartFetch(ix, ScanInput(ix, opts), opts)
    /\ op' = "list"
    /\ UNCHANGED <<backendVars, loopVars, persistVars, getVars, createVars, errorVars, codecVars>>

LookupCall ==
    /\ pc = "idle"
    /\ \E ix \in Indexes, limit \in {Undefined, Some(PageLimit)}, from \in {Undefined},
          more \in BOOLEAN, hook \in BOOLEAN, condition \in Conditions :
        /\ Plain(ix, limit, from, more, hook)
        /\ IsDefined(condition) => Len(ix.keyspec) = 2
        /\ LET opts == [limit |-> limit, startFrom |-> from, onMore |-> more,
                        overwrite |-> hook, condition |-> condition]
           IN StartFetch(ix, QueryInput(ix, LookupKey, opts), opts)
    /\ op' = "lookup"
    /\ UNCHANGED <<backendVars, loopVars, persistVars, getVars, createVars, errorVars, codecVars>>

(***************************************************************************)
(* DynamoIndex.fetch, one await / yield at a time.  The body of a          *)
(* generator runs only while a next() of its consumer is outstanding.      *)
(***************************************************************************)
\* a generator that runs ahead of its consumer
PendingAlways == TRUE

\* the consumer called next() and the call has not settled: each yield settles one
Pending == pulls > Len(yielded)

\* the consumer calls next() on the generator (for await, collect)
Pull ==
    /\ pc \in {"fetch", "fetch_items"}
    /\ pulls = Len(yielded)
    /\ pulls' = pulls + 1
    /\ UNCHANGED <<op, pc, index, options, params, onMore, res, idx, requests, pages, yielded,
                   onMoreCalls, hookCalls, backendVars, loopVars, persistVars, getVars,
                   createVars, errorVars, codecVars>>

\* the request list / lookup built for the hook, on the first run of the body
BuiltParams ==
    IF op = "lookup" THEN QueryParams(index, LookupKey, options)
    ELSE ScanParams(index, options)

\* const res = await operation(params): the request goes out; in the first frame the
\* hook has just been applied to the request built
FetchOperation ==
    /\ pc = "fetch"
    /\ Pending
    /\ hookCalls' = IF requests = <<>> /\ options.overwrite THEN <<BuiltParams>>
                    ELSE hookCalls
    /\ requests' = Append(requests, params)
    /\ pc' = "fetch_await"
    /\ UNCHANGED <<op, index, options, params, onMore, res, idx, pages, yielded, onMoreCalls,
                   pulls, backendVars, loopVars, persistVars, getVars, createVars, errorVars,
                   codecVars>>

\* backend: position a request starts from (the marker is the last row evaluated)
PageStart(request) ==
    IF IsDefined(request.ExclusiveStartKey) THEN request.ExclusiveStartKey[1] ELSE 0

\* backend: the page sizes it may answer a request with; never more than Limit
PageSizes(request) ==
    LET avail == tableSize - PageStart(request)
        cap == IF IsDefined(request.Limit) THEN Min(avail, request.Limit[1]) ELSE avail
    IN IF cap <= 0 THEN {0} ELSE 1..cap

\* backend: a page of c rows; it carries a marker while rows are left, and may carry
\* one when Limit was reached on the last row
BackendPage(request, c, atLimit) ==
    LET start == PageStart(request)
    IN [Items |-> [i \in 1..c |-> StoredRow(start + i)],
        LastEvaluatedKey |->
            IF start + c < tableSize \/ atLimit THEN Some(start + c) ELSE Undefined]

BackendRespond ==
    /\ pc = "fetch_await"
    /\ \E c \in PageSizes(params), atLimit \in BOOLEAN :
        /\ atLimit => /\ IsDefined(params.Limit)
                      /\ c = params.Limit[1]
                      /\ PageStart(params) + c = tableSize
        /\ res' = BackendPage(params, c, atLimit)
    /\ pages' = Append(pages, res')
    /\ idx' = 1
    /\ pc' = "fetch_items"
    /\ UNCHANGED <<op, index, options, params, onMore, requests, yielded, onMoreCalls,
                   pulls, hookCalls, backendVars, loopVars, persistVars, getVars, createVars,
                   errorVars, codecVars>>

\* backend: the request fails; the rejection leaves the generator through its await
FetchReject ==
    /\ pc = "fetch_await"
    /\ \E err \in BackendErrors :
        /\ raised' = Some(err)
        /\ error' = Some(err)
    /\ pc' = "failed"
    /\ UNCHANGED <<op, listVars, backendVars, loopVars, persistVars, getVars, createVars,
                   codecVars>>

\* a decoding that passes over an item it cannot decode
DecodeItemLenient(ix, item) ==
    IF Threw(deserialize(ix.serializer.self, [M |-> item])) THEN Return(Undefined)
    ELSE deserialize(ix.serializer.self, [M |-> item])

\* this.serializer.deserialize({M: item})
DecodeItem(ix, item) == deserialize(ix.serializer.self, [M |-> item])

\* for (const item of items) yield this.serializer.deserialize({M: item}); an item
\* that fails to decode ends the generator with the codec's error
YieldItem ==
    /\ pc = "fetch_items"
    /\ Pending
    /\ idx <= Len(res.Items)
    /\ LET out == DecodeItem(index, res.Items[idx])
       IN IF Threw(out)
          THEN /\ error' = Some(out.throw)
               /\ pc' = "failed"
               /\ UNCHANGED <<yielded, idx, seen>>
          ELSE /\ yielded' = Append(yielded, out.return)
               /\ idx' = idx + 1
               /\ seen' = IF op = "loop" THEN seen \cup {PageStart(params) + idx} ELSE seen
               /\ UNCHANGED <<pc, error>>
    /\ UNCHANGED <<op, index, options, params, onMore, res, requests, pages, onMoreCalls,
                   pulls, hookCalls, startFrom, raised, backendVars, persistVars, getVars,
                   createVars, codecVars>>

\* a fetch that follows every continuation marker
ShouldFollowAlways(p, items) == TRUE

\* params.Limit == undefined || params.Limit > items.length
ShouldFollow(p, items) == IF IsDefined(p.Limit) THEN p.Limit[1] > Len(items) ELSE TRUE

\* a follow-up that asks for the same page again
FollowUpParamsSamePage(p, r) ==
    [p EXCEPT !.Limit = IF IsDefined(p.Limit) THEN Some(p.Limit[1] - Len(r.Items))
                        ELSE Undefined]

\* a follow-up that asks for the whole limit again
FollowUpParamsFullLimit(p, r) ==
    [p EXCEPT !.ExclusiveStartKey = r.LastEvaluatedKey]

\* a follow-up that keeps only what list / lookup built themselves
FollowUpParamsRebuilt(p, r) ==
    [name \in DOMAIN p \ {"FilterExpression"} |->
        IF name = "ExclusiveStartKey" THEN r.LastEvaluatedKey
        ELSE IF name = "Limit"
        THEN (IF IsDefined(p.Limit) THEN Some(p.Limit[1] - Len(r.Items)) ELSE Undefined)
        ELSE p[name]]

\* the params of the recursive fetch
FollowUpParams(p, r) ==
    [p EXCEPT !.ExclusiveStartKey = r.LastEvaluatedKey,
              !.Limit = IF IsDefined(p.Limit) THEN Some(p.Limit[1] - Len(r.Items))
                        ELSE Undefined]

\* the onMore of the recursive fetch: none is passed on, so the default applies
FollowUpOnMore(current) == "default"

\* yield *this.fetch({...params, ExclusiveStartKey, Limit}, operation)
FetchFollow ==
    /\ pc = "fetch_items"
    /\ Pending
    /\ idx > Len(res.Items)
    /\ IsDefined(res.LastEvaluatedKey)
    /\ ShouldFollow(params, res.Items)
    /\ params' = FollowUpParams(params, res)
    /\ onMore' = FollowUpOnMore(onMore)
    /\ pc' = "fetch"
    /\ UNCHANGED <<op, index, options, res, idx, requests, pages, yielded, onMoreCalls,
                   pulls, hookCalls, backendVars, loopVars, persistVars, getVars, createVars,
                   errorVars, codecVars>>

\* onMore(res.LastEvaluatedKey); the README loop's callback stores the token
FetchOnMore ==
    /\ pc = "fetch_items"
    /\ Pending
    /\ idx > Len(res.Items)
    /\ IsDefined(res.LastEvaluatedKey)
    /\ ~ShouldFollow(params, res.Items)
    /\ onMoreCalls' = IF onMore = "caller" THEN Append(onMoreCalls, res.LastEvaluatedKey)
                      ELSE onMoreCalls
    /\ startFrom' = IF onMore = "caller" /\ op = "loop" THEN res.LastEvaluatedKey
                    ELSE startFrom
    /\ pc' = "done"
    /\ UNCHANGED <<op, index, options, params, onMore, res, idx, requests, pages, yielded, seen,
                   pulls, hookCalls, backendVars, persistVars, getVars, createVars, errorVars,
                   codecVars>>

\* no LastEvaluatedKey: the generator returns
FetchEnd ==
    /\ pc = "fetch_items"
    /\ Pending
    /\ idx > Len(res.Items)
    /\ ~IsDefined(res.LastEvaluatedKey)
    /\ pc' = "done"
    /\ UNCHANGED <<op, listVars, backendVars, loopVars, persistVars, getVars, createVars,
                   errorVars, codecVars>>

(***************************************************************************)
(* The paging loop of the README:                                          *)
(*   var startFrom = undefined;                                            *)
(*   do { await collect(dao.list({limit, startFrom, onMore: token =>       *)
(*        { startFrom = token; }})); } while (startFrom);                  *)
(***************************************************************************)
LoopOptions(from) ==
    [limit |-> Some(PageLimit), startFrom |-> from, onMore |-> TRUE, overwrite |-> FALSE,
     condition |-> Undefined]

PagingLoopStart ==
    /\ pc = "idle"
    /\ op' = "loop"
    /\ startFrom' = Undefined
    /\ seen' = {}
    /\ StartFetch(TableIndex, ScanInput(TableIndex, LoopOptions(Undefined)),
                  LoopOptions(Undefined))
    /\ UNCHANGED <<backendVars, persistVars, getVars, createVars, errorVars, codecVars>>

\* while (startFrom): another round
PagingLoopAgain ==
    /\ op = "loop"
    /\ pc = "done"
    /\ IsDefined(startFrom)
    /\ StartFetch(TableIndex, ScanInput(TableIndex, LoopOptions(startFrom)),
                  LoopOptions(startFrom))
    /\ UNCHANGED <<op, backendVars, loopVars, persistVars, getVars, createVars, errorVars,
                   codecVars>>

PagingLoopExit ==
    /\ op = "loop"
    /\ pc = "done"
    /\ ~IsDefined(startFrom)
    /\ pc' = "loop_done"
    /\ UNCHANGED <<op, listVars, backendVars, loopVars, persistVars, getVars, createVars,
                   errorVars, codecVars>>

PagingNext ==
    \/ ListCall
    \/ LookupCall
    \/ Pull
    \/ FetchOperation
    \/ BackendRespond
    \/ FetchReject
    \/ YieldItem
    \/ FetchFollow
    \/ FetchOnMore
    \/ FetchEnd
    \/ PagingLoopStart
    \/ PagingLoopAgain
    \/ PagingLoopExit

(***************************************************************************)
(* DynamoDao.persist over chunksOf(entities, 25).  The input sequence is   *)
(* Entity(1), ..., Entity(input).                                          *)
(***************************************************************************)
\* a loop condition that lets one record too many in
ChunkHasRoomOffByOne(c, chunkSize) == IF chunkSize = 0 THEN TRUE ELSE Len(c) <= chunkSize

\* a loop condition that never closes the chunk
ChunkHasRoomAlways(c, chunkSize) == TRUE

\* chunksOf: chunkSize == 0 || chunk.length < chunkSize
ChunkHasRoom(c, chunkSize) == IF chunkSize = 0 THEN TRUE ELSE Len(c) < chunkSize

\* chunksOf's while loop has ended: the chunk is full or values.next() reported done
ChunkClosed(c, chunkSize) == ~ChunkHasRoom(c, chunkSize) \/ pulled = input

\* a chunksOf that yields its chunk whatever its length
ChunkYieldedAlways(c) == TRUE

\* chunksOf: if (chunk.length > 0) yield chunk
ChunkYielded(c) == Len(c) > 0

BatchWriteInput(c) ==
    [RequestItems |->
        tableName :> [i \in 1..Len(c) |-> [PutRequest |-> [Item |-> serialize(serializer, c[i]).return.M]]]]

\* a persist that does not wait for the call it issued
PersistAfterIssueNoAwait == "chunk_fill"

\* await this.dynamoDb.batchWriteItem(...).promise(): persist is suspended on the call
PersistAfterIssue == "write_await"

PersistCall ==
    /\ pc = "idle"
    /\ op' = "persist"
    /\ input' \in 0..MaxRecords
    /\ pulled' = 0
    /\ chunk' = <<>>
    /\ pc' = "chunk_fill"
    /\ UNCHANGED <<writeCalls, applied, inflight, backendVars, listVars, loopVars, getVars,
                   createVars, errorVars, codecVars>>

\* chunk.push(next.value)
ChunkPull ==
    /\ pc = "chunk_fill"
    /\ ChunkHasRoom(chunk, ChunkSize)
    /\ pulled < input
    /\ chunk' = Append(chunk, Entity(pulled + 1))
    /\ pulled' = pulled + 1
    /\ UNCHANGED <<op, pc, input, writeCalls, applied, inflight, backendVars, listVars,
                   loopVars, getVars, createVars, errorVars, codecVars>>

\* yield chunk: the body of persist's loop issues the bulk write for it
PersistWrite ==
    /\ pc = "chunk_fill"
    /\ ChunkClosed(chunk, ChunkSize)
    /\ ChunkYielded(chunk)
    /\ writeCalls' = Append(writeCalls, BatchWriteInput(chunk))
    /\ inflight' = inflight + 1
    /\ chunk' = <<>>
    /\ pc' = PersistAfterIssue
    /\ UNCHANGED <<op, input, pulled, applied, backendVars, listVars, loopVars, getVars,
                   createVars, errorVars, codecVars>>

\* chunk.length == 0: chunksOf ends, and persist resolves
PersistReturn ==
    /\ pc = "chunk_fill"
    /\ ChunkClosed(chunk, ChunkSize)
    /\ ~ChunkYielded(chunk)
    /\ pc' = "done"
    /\ UNCHANGED <<op, persistVars, backendVars, listVars, loopVars, getVars, createVars,
                   errorVars, codecVars>>

\* backend: the oldest call in flight is applied and resolves
BatchWriteResolve ==
    /\ op = "persist"
    /\ inflight > 0
    /\ applied' = Append(applied, writeCalls[Len(applied) + 1].RequestItems[tableName])
    /\ inflight' = inflight - 1
    /\ pc' = IF pc = "write_await" THEN "chunk_fill" ELSE pc
    /\ UNCHANGED <<op, input, pulled, chunk, writeCalls, backendVars, listVars, loopVars,
                   getVars, createVars, errorVars, codecVars>>

\* backend: the call fails; the rejection leaves persist through its await
BatchWriteReject ==
    /\ op = "persist"
    /\ pc = "write_await"
    /\ inflight > 0
    /\ \E err \in BackendErrors :
        /\ raised' = Some(err)
        /\ error' = Some(err)
    /\ inflight' = inflight - 1
    /\ pc' = "failed"
    /\ UNCHANGED <<op, input, pulled, chunk, writeCalls, applied, backendVars, listVars,
                   loopVars, getVars, createVars, codecVars>>

PersistNext ==
    \/ PersistCall
    \/ ChunkPull
    \/ PersistWrite
    \/ PersistReturn
    \/ BatchWriteResolve
    \/ BatchWriteReject

(***************************************************************************)
(* DynamoDao.get                                                           *)
(***************************************************************************)
\* a key that leaves the sort key out
dynamoDbKeyPartitionOnly(k) == [name \in {keyspec[1]} |-> serializeValue(TableIndex, name, k[1])]

dynamoDbKey(k) ==
    [name \in {keyspec[i] : i \in DOMAIN keyspec} |->
        serializeValue(TableIndex, name, k[CHOOSE i \in DOMAIN keyspec : keyspec[i] = name])]

Keys == {<<Str("soap"), Num(c)>> : c \in 1..(MaxTable + 1)} \cup {<<Str("tomatoe"), Num(64)>>}

GetItemInput(k) == [Key |-> dynamoDbKey(k), TableName |-> tableName]

\* backend: the stored item with the key asked for, if there is one
StoredItem(request) ==
    LET hit == {i \in 1..tableSize : \A name \in DOMAIN request.Key :
                    Row(i)[name] = request.Key[name]}
    IN IF hit = {} THEN Undefined ELSE Some(StoredRow(CHOOSE i \in hit : TRUE))

\* result.Item ? this.serializer.deserialize({M: result.Item}) : undefined
GetResult(item) ==
    IF IsDefined(item) THEN deserialize(serializer, [M |-> item[1]]) ELSE Return(Undefined)

GetCall ==
    /\ pc = "idle"
    /\ op' = "get"
    /\ \E k \in Keys :
        /\ key' = k
        /\ getCalls' = Append(getCalls, GetItemInput(k))
    /\ pc' = "get_await"
    /\ UNCHANGED <<getRes, result, backendVars, listVars, loopVars, persistVars, createVars,
                   errorVars, codecVars>>

GetItemRespond ==
    /\ pc = "get_await"
    /\ getRes' = StoredItem(getCalls[Len(getCalls)])
    /\ LET out == GetResult(getRes')
       IN IF Threw(out)
          THEN /\ error' = Some(out.throw)
               /\ pc' = "failed"
               /\ UNCHANGED result
          ELSE /\ result' = out.return
               /\ pc' = "done"
               /\ UNCHANGED error
    /\ UNCHANGED <<op, key, getCalls, raised, backendVars, listVars, loopVars, persistVars,
                   createVars, codecVars>>

GetItemReject ==
    /\ pc = "get_await"
    /\ \E err \in BackendErrors :
        /\ raised' = Some(err)
        /\ error' = Some(err)
    /\ pc' = "failed"
    /\ UNCHANGED <<op, getVars, backendVars, listVars, loopVars, persistVars, createVars,
                   codecVars>>

GetNext ==
    \/ GetCall
    \/ GetItemRespond
    \/ GetItemReject

(***************************************************************************)
(* DynamoDao.createTableIfNeeded.                                          *)
(***************************************************************************)
throughput == [ReadCapacityUnits |-> 1, WriteCapacityUnits |-> 1]

keySchema ==
    [i \in DOMAIN keyspec |->
        [AttributeName |-> keyspec[i], KeyType |-> IF i = 1 THEN "HASH" ELSE "RANGE"]]

\* this.keySchema of an index
IndexKeySchema(ix) ==
    [i \in DOMAIN ix.keyspec |->
        [AttributeName |-> ix.keyspec[i], KeyType |-> IF i = 1 THEN "HASH" ELSE "RANGE"]]

\* the key names of the indexes, in the order forEach meets them
RECURSIVE IndexKeys(_)
IndexKeys(ixs) ==
    IF ixs = <<>> THEN <<>>
    ELSE IndexKeys(SubSeq(ixs, 1, Len(ixs) - 1)) \o ixs[Len(ixs)].keyspec

\* a declaration that projects everything
ProjectionTypeAll(ix) == "ALL"

\* index.projection ? (index.projection.length > 0 ? "INCLUDE" : "KEYS_ONLY") : "ALL"
ProjectionType(ix) ==
    IF IsDefined(ix.projection)
    THEN (IF Len(ix.projection[1]) > 0 THEN "INCLUDE" ELSE "KEYS_ONLY")
    ELSE "ALL"

\* index.projection?.length ?? 0 > 0 ? index.projection : undefined, which groups as
\* (index.projection?.length ?? (0 > 0)) ? index.projection : undefined
NonKeyAttributes(ix) ==
    IF (IF IsDefined(ix.projection) THEN Len(ix.projection[1]) # 0 ELSE FALSE)
    THEN ix.projection[1]
    ELSE Undefined

IndexSpec(ix) ==
    [IndexName |-> IF IsDefined(ix.name) THEN ix.name[1] ELSE Join(ix.keyspec, "_"),
     KeySchema |-> IndexKeySchema(ix),
     Projection |-> [ProjectionType |-> ProjectionType(ix),
                     NonKeyAttributes |-> NonKeyAttributes(ix)]]

GlobalIndexSpec(ix, capacity) ==
    [IndexName |-> IndexSpec(ix).IndexName,
     KeySchema |-> IndexSpec(ix).KeySchema,
     Projection |-> IndexSpec(ix).Projection,
     ProvisionedThroughput |-> capacity]

\* indexes.filter((index) => index.type == type)
OfType(ixs, type) == SelectSeq(ixs, LAMBDA ix : ix.type = type)

buildTableSpec(capacity, ixs) ==
    [AttributeDefinitions |->
        [i \in DOMAIN KeyOrder(keyspec \o IndexKeys(ixs)) |->
            [AttributeName |-> KeyOrder(keyspec \o IndexKeys(ixs))[i],
             AttributeType |-> typeOf(serializer, KeyOrder(keyspec \o IndexKeys(ixs))[i])]],
     KeySchema |-> keySchema,
     LocalSecondaryIndexes |->
        IF Len(OfType(ixs, "LOCAL")) < 1 THEN Undefined
        ELSE [i \in DOMAIN OfType(ixs, "LOCAL") |-> IndexSpec(OfType(ixs, "LOCAL")[i])],
     GlobalSecondaryIndexes |->
        IF Len(OfType(ixs, "GLOBAL")) < 1 THEN Undefined
        ELSE [i \in DOMAIN OfType(ixs, "GLOBAL") |->
                 GlobalIndexSpec(OfType(ixs, "GLOBAL")[i], capacity)],
     ProvisionedThroughput |-> capacity,
     TableName |-> tableName]

tableParam == [TableName |-> buildTableSpec(throughput, <<>>).TableName]

\* a check that never sees the table as ready
IsActiveNever(status) == FALSE

\* a check that takes every table description for a ready table
IsActiveAlways(status) == TRUE

\* status.Table && status.Table.TableStatus === "ACTIVE"
IsActive(status) == status = "ACTIVE"

\* a handler that takes no error for a missing table
IsNotFoundNever(err) == FALSE

\* a handler that takes every error for a missing table
IsNotFoundAlways(err) == TRUE

\* error.name === "ResourceNotFoundException"
IsNotFound(err) == err.name = "ResourceNotFoundException"

DdlCall(name, request) == [call |-> name, params |-> request, outcome |-> "pending"]

\* the last call of the invocation settles with the given outcome
Settled(outcome) == [ddl EXCEPT ![Len(ddl)].outcome = outcome]

WaitForCall == DdlCall("waitFor", [state |-> "tableExists", TableName |-> tableParam.TableName])

CreateTableIfNeededCall ==
    /\ \/ pc = "idle"
       \/ op = "create" /\ pc = "done"
    /\ invocation < MaxInvocations
    /\ op' = "create"
    /\ invocation' = invocation + 1
    /\ indexes' \in IndexLists
    /\ ddl' = <<DdlCall("describeTable", tableParam)>>
    /\ pc' = "describe_await"
    /\ UNCHANGED <<creates, firstReport, rival, backendVars, listVars, loopVars, persistVars,
                   getVars, errorVars, codecVars>>

FirstReport(outcome) == IF invocation = 1 THEN Some(outcome) ELSE firstReport

\* describeTable resolves with the table's status
DescribeTableRespond ==
    /\ pc = "describe_await"
    /\ tableStatus # "ABSENT"
    /\ firstReport' = FirstReport(tableStatus)
    /\ IF IsActive(tableStatus)
       THEN /\ ddl' = Settled(tableStatus)
            /\ pc' = "done"
       ELSE /\ ddl' = Append(Settled(tableStatus), WaitForCall)
            /\ pc' = "wait_await"
    /\ UNCHANGED <<op, rival, indexes, invocation, creates, backendVars, listVars, loopVars, persistVars,
                   getVars, errorVars, codecVars>>

\* catch (error): create the table when it is missing, rethrow anything else
DescribeCatch(err) ==
    /\ raised' = Some(err)
    /\ firstReport' = FirstReport(err.name)
    /\ IF IsNotFound(err)
       THEN /\ ddl' = Append(Settled(err.name), DdlCall("createTable", buildTableSpec(throughput, indexes)))
            /\ creates' = creates + 1
            /\ error' = error
            /\ pc' = "create_await"
       ELSE /\ ddl' = Settled(err.name)
            /\ creates' = creates
            /\ error' = Some(err)
            /\ pc' = "failed"

\* describeTable rejects: there is no such table
DescribeTableNotFound ==
    /\ pc = "describe_await"
    /\ tableStatus = "ABSENT"
    /\ DescribeCatch([name |-> "ResourceNotFoundException"])
    /\ UNCHANGED <<op, rival, indexes, invocation, backendVars, listVars, loopVars, persistVars, getVars,
                   codecVars>>

\* describeTable rejects with another error
DescribeTableReject ==
    /\ pc = "describe_await"
    /\ \E err \in BackendErrors : DescribeCatch(err)
    /\ UNCHANGED <<op, rival, indexes, invocation, backendVars, listVars, loopVars, persistVars, getVars,
                   codecVars>>

\* createTable resolves: the backend starts creating the table; the wait begins
CreateTableResolve ==
    /\ pc = "create_await"
    /\ tableStatus = "ABSENT"
    /\ tableStatus' = "CREATING"
    /\ ddl' = Append(Settled("ok"), WaitForCall)
    /\ pc' = "wait_await"
    /\ UNCHANGED <<op, rival, indexes, tableSize, damaged, invocation, creates, firstReport, listVars, loopVars,
                   persistVars, getVars, errorVars, codecVars>>

\* createTable rejects; a table that is there already is one of the reasons
CreateTableReject ==
    /\ pc = "create_await"
    /\ \E err \in BackendErrors \cup {[name |-> "ResourceInUseException"]} :
        /\ err.name = "ResourceInUseException" => tableStatus # "ABSENT"
        /\ raised' = Some(err)
        /\ error' = Some(err)
        /\ ddl' = Settled(err.name)
    /\ pc' = "failed"
    /\ UNCHANGED <<op, rival, indexes, invocation, creates, firstReport, backendVars, listVars, loopVars,
                   persistVars, getVars, codecVars>>

\* backend: a table being created or updated becomes active
TableBecomesActive ==
    /\ tableStatus \in {"CREATING", "UPDATING"}
    /\ tableStatus' = "ACTIVE"
    /\ UNCHANGED <<tableSize, damaged, op, pc, listVars, loopVars, persistVars, getVars,
                   createVars,
                   errorVars, codecVars>>

\* waitFor("tableExists") resolves once the backend reports the table ACTIVE
WaitForResolve ==
    /\ pc = "wait_await"
    /\ tableStatus = "ACTIVE"
    /\ ddl' = Settled(tableStatus)
    /\ pc' = "done"
    /\ UNCHANGED <<op, rival, indexes, invocation, creates, firstReport, backendVars, listVars, loopVars,
                   persistVars, getVars, errorVars, codecVars>>

\* waitFor gives up
WaitForReject ==
    /\ pc = "wait_await"
    /\ raised' = Some([name |-> "ResourceNotReady"])
    /\ error' = raised'
    /\ ddl' = Settled("ResourceNotReady")
    /\ pc' = "failed"
    /\ UNCHANGED <<op, rival, indexes, invocation, creates, firstReport, backendVars, listVars, loopVars,
                   persistVars, getVars, codecVars>>

(***************************************************************************)
(* Two invocations of createTableIfNeeded on the same table, both started  *)
(* before either settled: each runs the same code, and the backend serves  *)
(* their calls in any order.                                               *)
(***************************************************************************)
InUse == [name |-> "ResourceInUseException"]

CreateTableIfNeededTwice ==
    /\ pc = "idle"
    /\ tableStatus = "ABSENT"
    /\ op' = "race"
    /\ indexes' \in IndexLists
    /\ invocation' = invocation + 1
    /\ ddl' = <<DdlCall("describeTable", tableParam)>>
    /\ pc' = "describe_await"
    /\ rival' = [pc |-> "describe_await", ddl |-> <<DdlCall("describeTable", tableParam)>>,
                 error |-> Undefined]
    /\ UNCHANGED <<creates, firstReport, backendVars, listVars, loopVars, persistVars,
                   getVars, errorVars, codecVars>>

\* the rival's last call settles with the given outcome
RivalSettled(outcome) == [rival.ddl EXCEPT ![Len(rival.ddl)].outcome = outcome]

\* the rival's describeTable resolves with the table's status
RivalDescribeTableRespond ==
    /\ rival.pc = "describe_await"
    /\ tableStatus # "ABSENT"
    /\ rival' = IF IsActive(tableStatus)
                THEN [rival EXCEPT !.pc = "done", !.ddl = RivalSettled(tableStatus)]
                ELSE [rival EXCEPT !.pc = "wait_await",
                                   !.ddl = Append(RivalSettled(tableStatus), WaitForCall)]
    /\ UNCHANGED <<op, pc, indexes, invocation, ddl, creates, firstReport, backendVars, listVars,
                   loopVars, persistVars, getVars, errorVars, codecVars>>

\* the rival's describeTable rejects: it creates the table when it is missing
RivalDescribeTableReject ==
    /\ rival.pc = "describe_await"
    /\ \E err \in BackendErrors \cup {[name |-> "ResourceNotFoundException"]} :
        /\ err.name = "ResourceNotFoundException" => tableStatus = "ABSENT"
        /\ IF IsNotFound(err)
           THEN /\ rival' = [rival EXCEPT
                                !.pc = "create_await",
                                !.ddl = Append(RivalSettled(err.name),
                                               DdlCall("createTable",
                                                       buildTableSpec(throughput, indexes)))]
                /\ creates' = creates + 1
           ELSE /\ rival' = [rival EXCEPT !.pc = "failed", !.ddl = RivalSettled(err.name),
                                          !.error = Some(err)]
                /\ creates' = creates
    /\ UNCHANGED <<op, pc, indexes, invocation, ddl, firstReport, backendVars, listVars, loopVars,
                   persistVars, getVars, errorVars, codecVars>>

\* the rival's createTable resolves
RivalCreateTableResolve ==
    /\ rival.pc = "create_await"
    /\ tableStatus = "ABSENT"
    /\ tableStatus' = "CREATING"
    /\ rival' = [rival EXCEPT !.pc = "wait_await",
                              !.ddl = Append(RivalSettled("ok"), WaitForCall)]
    /\ UNCHANGED <<op, pc, indexes, tableSize, damaged, invocation, ddl, creates, firstReport,
                   listVars, loopVars, persistVars, getVars, errorVars, codecVars>>

\* the rival's createTable rejects; the error leaves the invocation
RivalCreateTableReject ==
    /\ rival.pc = "create_await"
    /\ \E err \in BackendErrors \cup {InUse} :
        /\ err = InUse => tableStatus # "ABSENT"
        /\ rival' = [rival EXCEPT !.pc = "failed", !.ddl = RivalSettled(err.name),
                                  !.error = Some(err)]
    /\ UNCHANGED <<op, pc, indexes, invocation, ddl, creates, firstReport, backendVars, listVars,
                   loopVars, persistVars, getVars, errorVars, codecVars>>

\* the rival's waitFor resolves once the table is ACTIVE
RivalWaitForResolve ==
    /\ rival.pc = "wait_await"
    /\ tableStatus = "ACTIVE"
    /\ rival' = [rival EXCEPT !.pc = "done", !.ddl = RivalSettled(tableStatus)]
    /\ UNCHANGED <<op, pc, indexes, invocation, ddl, creates, firstReport, backendVars, listVars,
                   loopVars, persistVars, getVars, errorVars, codecVars>>

\* the rival's waitFor gives up
RivalWaitForReject ==
    /\ rival.pc = "wait_await"
    /\ rival' = [rival EXCEPT !.pc = "failed", !.ddl = RivalSettled("ResourceNotReady"),
                              !.error = Some([name |-> "ResourceNotReady"])]
    /\ UNCHANGED <<op, pc, indexes, invocation, ddl, creates, firstReport, backendVars, listVars,
                   loopVars, persistVars, getVars, errorVars, codecVars>>

ProvisionNext ==
    \/ CreateTableIfNeededCall
    \/ CreateTableIfNeededTwice
    \/ RivalDescribeTableRespond
    \/ RivalDescribeTableReject
    \/ RivalCreateTableResolve
    \/ RivalCreateTableReject
    \/ RivalWaitForResolve
    \/ RivalWaitForReject
    \/ DescribeTableRespond
    \/ DescribeTableNotFound
    \/ DescribeTableReject
    \/ CreateTableResolve
    \/ CreateTableReject
    \/ TableBecomesActive
    \/ WaitForResolve
    \/ WaitForReject

(***************************************************************************)
(* Calls on the codecs themselves: serialize a value and deserialize what  *)
(* came out, or deserialize a wire value.                                  *)
(***************************************************************************)
FieldCodecs == {string, number, boolean, date, list(string), optional(string),
                optional(number)}
RecordCodecs == {record("product"), record("user"), record("parcel")}
Codecs == FieldCodecs \cup RecordCodecs

\* the numbers and texts of the model
Numbers == ((-MaxNumber)..MaxNumber) \cup {64, 123456789, 987654321}

\* the decimal texts of some of them
Numeral(n) ==
    CASE n = -7 -> "-7" [] n = 0 -> "0" [] n = 7 -> "7" [] n = 64 -> "64"
      [] n = 123456789 -> "123456789" [] n = 987654321 -> "987654321"
Strings == {"", "soap", "12"}

johny ==
    Obj([surname |-> Str("Johny"), firstNames |-> Arr(<<Str("Smith"), Str("Jones")>>),
         dateOfBirth |-> Date(Num(123456789)), rightHanded |-> Bool(TRUE)])

sarah ==
    Obj([surname |-> Str("Sarah"), firstNames |-> Arr(<<Str("Roberts")>>),
         dateOfBirth |-> Date(Num(987654321)), mentor |-> johny,
         rightHanded |-> Bool(FALSE)])

parcel ==
    Obj([label |-> Str("box"), weight |-> Num(12), tags |-> Arr(<<Str("fragile")>>),
         content |-> Entity(1), note |-> Str("soap"), scratch |-> Str("soap")])

\* an object without one of its properties
Without(object, name) ==
    Obj([n \in DOMAIN object.object \ {name} |-> object.object[n]])

\* the records of a record codec's type
Entities(self) ==
    CASE self = "product" ->
            {Obj([type |-> Str(t), code |-> Num(c), price |-> Num(q)]) :
                t \in Strings, c \in {-7, 0, 64}, q \in {0, 7, 123456789}}
      [] self = "user" -> {johny, sarah}
      [] self = "parcel" -> {Without(parcel, "scratch"),
                             Without(Without(parcel, "scratch"), "note")}

\* the values of a field codec's domain
RECURSIVE Domain(_)
Domain(codec) ==
    CASE codec.kind = "raw" ->
            IF codec.type = "S" THEN {Str(t) : t \in Strings}
            ELSE {Bool(TRUE), Bool(FALSE)}
      [] codec.kind = "number" -> {Num(n) : n \in Numbers}
      [] codec.kind = "date" -> {Date(Num(t)) : t \in {0, 123456789, 987654321}}
      [] codec.kind = "list" ->
            {Arr(items) : items \in UNION {[1..n -> Domain(codec.of)] : n \in 0..MaxList}}
      [] codec.kind = "optional" -> {Undefined} \cup Domain(codec.of)
      [] codec.kind = "record" -> Entities(codec.self)

\* records that leave a property out or carry one the codec does not know
Incomplete(self) ==
    CASE self = "product" -> {Without(Entity(1), "price"), Without(Entity(1), "type")}
      [] self = "user" -> {Without(sarah, "firstNames"), Without(sarah, "dateOfBirth"),
                           Without(johny, "surname")}
      [] self = "parcel" -> {parcel, Without(parcel, "note"), Without(parcel, "content"),
                             Without(parcel, "tags")}

\* the values serialize is called with: those of the domain, undefined, and for a
\* record codec the incomplete records
Values(codec) ==
    Domain(codec) \cup {Undefined}
        \cup (IF codec.kind = "record" THEN Incomplete(codec.self) ELSE {})

\* decimal texts, and texts that are no decimal number
DecimalTexts == {"0", "7", "12", "-7", "64", "123456789"}
MalformedTexts == {"", "abc", "12a", "-", "1-2"}

\* wire values as the backend stores them
WireSamples ==
    {[S |-> t] : t \in Strings} \cup {[N |-> t] : t \in DecimalTexts \cup MalformedTexts}
        \cup {[BOOL |-> TRUE], [BOOL |-> FALSE], [NULL |-> TRUE], [L |-> <<>>],
              [L |-> <<[S |-> "soap"], [S |-> ""]>>], [L |-> <<[N |-> "7"]>>],
              [M |-> Row(1)]}

\* the wire maps of the records of the model
WireMaps ==
    [product |-> Row(1),
     user |-> [surname |-> [S |-> "Sarah"], firstNames |-> [L |-> <<[S |-> "Roberts"]>>],
               dateOfBirth |-> [N |-> "987654321"],
               mentor |-> [M |-> [surname |-> [S |-> "Johny"],
                                  firstNames |-> [L |-> <<[S |-> "Smith"], [S |-> "Jones"]>>],
                                  dateOfBirth |-> [N |-> "123456789"],
                                  mentor |-> [NULL |-> TRUE],
                                  rightHanded |-> [BOOL |-> TRUE]]],
               rightHanded |-> [BOOL |-> FALSE]],
     parcel |-> [label |-> [S |-> "box"], weight |-> [N |-> "12"],
                 tags |-> [L |-> <<[S |-> "fragile"]>>], content |-> [M |-> Row(1)],
                 note |-> [S |-> "soap"]]]

\* a wire map without one of its entries
Lacking(entries, name) == [n \in DOMAIN entries \ {name} |-> entries[n]]

\* a wire map with one entry replaced
Replaced(entries, name, wire) == [n \in DOMAIN entries |-> IF n = name THEN wire ELSE entries[n]]

\* a wire value of another tag than the one given
OtherTag(wire) == IF "S" \in DOMAIN wire THEN [N |-> "12"] ELSE [S |-> "soap"]

\* the wire map of a parcel whose content lacks its price
ParcelOfDamagedContent ==
    [M |-> Replaced(WireMaps.parcel, "content", [M |-> Lacking(Row(1), "price")])]

\* the wire values deserialize is called with: the samples, nothing at all, and for a
\* record codec the wire map of a record, whole, lacking one entry, with one entry of
\* another tag, and with an entry the codec does not know
Wires(codec) ==
    WireSamples \cup {Undefined}
        \cup (IF codec = record("parcel") THEN {ParcelOfDamagedContent} ELSE {})
        \cup (IF codec.kind = "record"
              THEN LET entries == WireMaps[codec.self]
                   IN {[M |-> entries], [M |-> ("extra" :> [S |-> "soap"]) @@ entries]}
                      \cup {[M |-> Lacking(entries, name)] : name \in DOMAIN entries}
                      \cup {[M |-> Replaced(entries, name, OtherTag(entries[name]))] :
                               name \in DOMAIN entries}
              ELSE {})

\* codec.serialize(value)
CodecSerializeCall ==
    /\ pc = "idle"
    /\ op' = "codec"
    /\ \E codec \in Codecs :
        \E value \in Values(codec) :
            /\ codecCall' = [fn |-> "serialize", codec |-> codec, arg |-> value]
            /\ codecOut' = CodecSerialize(codec, value)
    /\ error' = IF Threw(codecOut') THEN Some(codecOut'.throw) ELSE error
    /\ pc' = IF Threw(codecOut') THEN "failed" ELSE "serialized"
    /\ UNCHANGED <<codecBack, raised, backendVars, listVars, loopVars, persistVars, getVars,
                   createVars>>

\* codec.deserialize(codec.serialize(value))
CodecDeserializeBack ==
    /\ pc = "serialized"
    /\ codecBack' = CodecDeserialize(codecCall.codec, codecOut.return)
    /\ error' = IF Threw(codecBack') THEN Some(codecBack'.throw) ELSE error
    /\ pc' = IF Threw(codecBack') THEN "failed" ELSE "done"
    /\ UNCHANGED <<op, codecCall, codecOut, raised, backendVars, listVars, loopVars,
                   persistVars, getVars, createVars>>

\* codec.deserialize(wire)
CodecDeserializeCall ==
    /\ pc = "idle"
    /\ op' = "codec"
    /\ \E codec \in Codecs :
        \E wire \in Wires(codec) :
            /\ codecCall' = [fn |-> "deserialize", codec |-> codec, arg |-> wire]
            /\ codecOut' = CodecDeserialize(codec, wire)
    /\ error' = IF Threw(codecOut') THEN Some(codecOut'.throw) ELSE error
    /\ pc' = IF Threw(codecOut') THEN "failed" ELSE "done"
    /\ UNCHANGED <<codecBack, raised, backendVars, listVars, loopVars, persistVars, getVars,
                   createVars>>

CodecNext ==
    \/ CodecSerializeCall
    \/ CodecDeserializeBack
    \/ CodecDeserializeCall

Next ==
    \/ PagingNext
    \/ PersistNext
    \/ GetNext
    \/ ProvisionNext
    \/ CodecNext

Spec == Init /\ [][Next]_vars

\* every pending continuation runs and the backend answers every request
\* the README paging loop alone, every step of which is eventually taken
LoopNext ==
    \/ Pull
    \/ FetchOperation
    \/ BackendRespond
    \/ FetchReject
    \/ YieldItem
    \/ FetchFollow
    \/ FetchOnMore
    \/ FetchEnd
    \/ PagingLoopStart
    \/ PagingLoopAgain
    \/ PagingLoopExit

FairSpec == Init /\ [][LoopNext]_vars /\ WF_vars(LoopNext)

(***************************************************************************)
(* Properties of list / lookup / fetch.                                    *)
(***************************************************************************)
IsPrefix(s, t) == Len(s) <= Len(t) /\ s = SubSeq(t, 1, Len(s))

\* the items of a chain of pages, in page order and in in-page order
RECURSIVE PageItems(_)
PageItems(pgs) ==
    IF pgs = <<>> THEN <<>>
    ELSE PageItems(SubSeq(pgs, 1, Len(pgs) - 1)) \o pgs[Len(pgs)].Items

\* the records of the items, up to the first item that fails to decode
RECURSIVE Decoded(_)
Decoded(items) ==
    IF items = <<>> THEN <<>>
    ELSE LET front == Decoded(SubSeq(items, 1, Len(items) - 1))
             out == deserialize(index.serializer.self, [M |-> items[Len(items)]])
         IN IF Len(front) < Len(items) - 1 \/ Threw(out) THEN front
            ELSE Append(front, out.return)

\* the records of rows from+1 .. to of the table, with the fields the codec of the
\* current index has
Records(from, to) ==
    [i \in 1..(to - from) |->
        Obj([name \in Range(fields(index.serializer.self)) |->
                Entity(from + i).object[name]])]

InFetch == op \in {"list", "lookup"}

\* C1: an unbounded list / lookup yields exactly the decoded items of the pages the
\* backend answered with, in page order and in in-page order, and ends on the page
\* that carries no marker; each follow-up request carries the previous page's marker
\* as ExclusiveStartKey.
C1_UnboundedYieldsAllPagesInOrder ==
    (InFetch /\ ~IsDefined(options.limit)) =>
        /\ \A i \in 2..Len(requests) :
            /\ IsDefined(pages[i - 1].LastEvaluatedKey)
            /\ requests[i].ExclusiveStartKey = pages[i - 1].LastEvaluatedKey
        /\ IsPrefix(yielded, Decoded(PageItems(pages)))
        /\ Len(requests) >= 2 =>
               IsPrefix(Decoded(PageItems(SubSeq(pages, 1, Len(requests) - 1))), yielded)
        /\ pc = "done" =>
            /\ Len(requests) = Len(pages)
            /\ ~IsDefined(pages[Len(pages)].LastEvaluatedKey)
            /\ yielded = Decoded(PageItems(pages))
            /\ yielded = Records(PageStart(requests[1]), tableSize)

C1_Witness ==
    /\ op = "list"
    /\ pc = "done"
    /\ ~IsDefined(options.limit)
    /\ Len(pages) >= 3
    /\ Len(pages[2].Items) >= 2
    /\ Len(yielded) = MaxTable

\* C2: with limit L, against a backend that returns at most Limit items per page, the
\* sequence yields at most L records over all the pages it follows.
C2_AtMostLimitYielded ==
    (op \in {"list", "lookup", "loop"} /\ IsDefined(options.limit)) =>
        Len(yielded) <= options.limit[1]

C2_Witness ==
    /\ op = "lookup"
    /\ pc = "done"
    /\ IsDefined(options.limit)
    /\ Len(pages) >= 2
    /\ Len(yielded) = options.limit[1]
    /\ IsDefined(pages[Len(pages)].LastEvaluatedKey)

\* C3: with limit L and an onMore callback, whenever the limit becomes satisfied by a
\* page that carries a marker, on the first page or on a follow-up page, the sequence
\* stops and onMore is invoked exactly once with that page's marker.
C3_OnMoreOnWhicheverPage ==
    /\ Len(onMoreCalls) <= 1
    /\ (/\ InFetch
        /\ pc = "done"
        /\ IsDefined(options.limit)
        /\ options.onMore
        /\ IsDefined(pages[Len(pages)].LastEvaluatedKey)) =>
            /\ Len(yielded) = options.limit[1]
            /\ onMoreCalls = <<pages[Len(pages)].LastEvaluatedKey>>

(***************************************************************************)
(* Properties of the README paging loop.                                   *)
(***************************************************************************)
\* the loop ends
C4_PagingLoopTerminates == (op = "loop") ~> (pc \in {"loop_done", "failed"})

\* when the loop has ended, every row of the table was yielded by one of its list calls
C4_PagingLoopCovers == pc = "loop_done" => seen = 1..tableSize

\* C4: the paging loop of the README terminates for every finite table, having
\* issued list calls that together cover the table.
C4_PagingLoopTerminatesCovering == C4_PagingLoopTerminates /\ [](C4_PagingLoopCovers)

(***************************************************************************)
(* Properties of persist.                                                  *)
(***************************************************************************)
WriteItems(i) == writeCalls[i].RequestItems[tableName]

RECURSIVE WrittenUpTo(_)
WrittenUpTo(n) == IF n = 0 THEN <<>> ELSE WrittenUpTo(n - 1) \o WriteItems(n)

\* the PutRequests of the input, in input order
ExpectedPuts(n) == [i \in 1..n |-> [PutRequest |-> [Item |-> Row(i)]]]

\* C5: persist over n records issues exactly ceil(n/25) bulk-write calls: every call
\* carries at most 25 PutRequests, every call but the last exactly 25, and the item
\* lists concatenated are the serialized input, nothing lost, duplicated or reordered.
C5_PersistChunksOf25 ==
    (op = "persist" /\ pc = "done") =>
        /\ Len(writeCalls) = (input + 24) \div 25
        /\ \A i \in 1..Len(writeCalls) :
            /\ DOMAIN writeCalls[i].RequestItems = {"ProductTable"}
            /\ Len(WriteItems(i)) <= 25
            /\ i < Len(writeCalls) => Len(WriteItems(i)) = 25
        /\ WrittenUpTo(Len(writeCalls)) = ExpectedPuts(input)

C5_Witness ==
    /\ op = "persist"
    /\ pc = "done"
    /\ input = 26
    /\ Len(writeCalls) = 2
    /\ Len(WriteItems(1)) = 25
    /\ Len(WriteItems(2)) = 1

C6_Sequential ==
    op = "persist" =>
        /\ inflight <= 1
        /\ inflight = Len(writeCalls) - Len(applied) - (IF pc = "failed" THEN 1 ELSE 0)
        /\ \A i \in 1..Len(applied) : applied[i] = WriteItems(i)
        /\ pc = "failed" =>
            /\ IsDefined(raised)
            /\ error = raised
            /\ Len(writeCalls) = Len(applied) + 1

C6_FailureIsFinal ==
    (op = "persist" /\ pc = "failed") =>
        /\ writeCalls' = writeCalls
        /\ applied' = applied
        /\ error' = error
        /\ pc' = "failed"

\* C6: the bulk-write call for chunk N+1 is issued only after the call for chunk N has
\* resolved, so at most one is in flight; if the call for chunk N fails, persist fails
\* with that error, no call for a later chunk is ever issued, and the calls for chunks
\* 1..N-1 stay applied.
C6_PersistSequentialAbortOnFailure == [](C6_Sequential) /\ [][C6_FailureIsFinal]_vars

C6_Witness ==
    /\ op = "persist"
    /\ pc = "failed"
    /\ input = MaxRecords
    /\ Len(writeCalls) = 2
    /\ Len(applied) = 1

(***************************************************************************)
(* Properties of get.                                                      *)
(***************************************************************************)
\* C7: get on a key for which the backend returns no item completes normally with an
\* undefined result, raises no error, and issues exactly one getItem, whose Key holds
\* exactly the key-specification fields, each encoded by its field codec.
C7_GetAbsent ==
    (op = "get" /\ pc = "done" /\ ~IsDefined(getRes)) =>
        /\ result = Undefined
        /\ ~IsDefined(error)
        /\ Len(getCalls) = 1
        /\ getCalls[1].TableName = "ProductTable"
        /\ getCalls[1].Key = [type |-> [S |-> key[1].string], code |-> [N |-> String(key[2])]]

C7_Witness ==
    /\ op = "get"
    /\ pc = "done"
    /\ ~IsDefined(getRes)
    /\ result = Undefined
    /\ tableSize = MaxTable
    /\ getCalls[1].Key = [type |-> [S |-> "tomatoe"], code |-> [N |-> "64"]]

(***************************************************************************)
(* Properties of createTableIfNeeded.                                      *)
(***************************************************************************)
CallsNamed(name) == {i \in 1..Len(ddl) : ddl[i].call = name}

DescribeReported(outcome) == op = "create" /\ Len(ddl) >= 1 /\ ddl[1].outcome = outcome

\* C8: if describeTable reports the table ACTIVE, createTableIfNeeded returns after
\* that single describe call, with no createTable and no wait; sequential calls on an
\* already active table never issue createTable.
C8_ActiveTableOnlyDescribed ==
    /\ DescribeReported("ACTIVE") =>
        /\ pc = "done"
        /\ Len(ddl) = 1
        /\ ddl[1].call = "describeTable"
        /\ ~IsDefined(error)
    /\ (op = "create" /\ firstReport = Some("ACTIVE")) => creates = 0

C8_Witness ==
    /\ DescribeReported("ACTIVE")
    /\ invocation = MaxInvocations
    /\ firstReport = Some("ACTIVE")
    /\ pc = "done"

\* the createTable request of a [type, code] table of the {type: string, code: number}
\* codec, called without indexes
ExpectedTableSpec ==
    [AttributeDefinitions |-> <<[AttributeName |-> "type", AttributeType |-> "S"],
                                [AttributeName |-> "code", AttributeType |-> "N"]>>,
     KeySchema |-> <<[AttributeName |-> "type", KeyType |-> "HASH"],
                     [AttributeName |-> "code", KeyType |-> "RANGE"]>>,
     LocalSecondaryIndexes |-> Undefined,
     GlobalSecondaryIndexes |-> Undefined,
     ProvisionedThroughput |-> [ReadCapacityUnits |-> 1, WriteCapacityUnits |-> 1],
     TableName |-> "ProductTable"]

\* C9: if describeTable reports that the table does not exist, createTableIfNeeded
\* issues exactly one createTable call built from the table specification and then
\* waits; it returns normally only after the backend has reported the table active.
C9_MissingTableCreatedThenAwaited ==
    DescribeReported("ResourceNotFoundException") =>
        /\ Len(ddl) >= 2
        /\ CallsNamed("createTable") = {2}
        /\ indexes = <<>> => ddl[2].params = ExpectedTableSpec
        /\ Len(ddl) >= 3 =>
            /\ Len(ddl) = 3
            /\ ddl[2].outcome = "ok"
            /\ ddl[3].call = "waitFor"
            /\ ddl[3].params.TableName = "ProductTable"
        /\ pc = "done" =>
            /\ Len(ddl) = 3
            /\ ddl[3].outcome = "ACTIVE"
            /\ tableStatus = "ACTIVE"
            /\ ~IsDefined(error)

C9_Witness ==
    /\ DescribeReported("ResourceNotFoundException")
    /\ pc = "done"
    /\ Len(ddl) = 3
    /\ creates = 1

BackendErrorNames == {err.name : err \in BackendErrors} \cup {"ResourceInUseException"}

\* C10: if describeTable fails with an error other than table-not-found, or if
\* createTable fails, createTableIfNeeded fails with that same error unchanged, issues
\* no further backend call after the failing one, and never re-issues the failed call.
C10_OtherErrorsPropagate ==
    op = "create" =>
        /\ \A i \in 1..Len(ddl) :
            (ddl[i].call \in {"describeTable", "createTable"}
                /\ ddl[i].outcome \in BackendErrorNames) =>
                    /\ i = Len(ddl)
                    /\ pc = "failed"
                    /\ IsDefined(error)
                    /\ error = raised
                    /\ error[1] = [name |-> ddl[i].outcome]
        /\ Cardinality(CallsNamed("describeTable")) <= 1
        /\ Cardinality(CallsNamed("createTable")) <= 1

C10_Witness ==
    /\ op = "create"
    /\ pc = "failed"
    /\ Len(ddl) = 2
    /\ ddl[2].call = "createTable"
    /\ ddl[2].outcome = "InternalServerError"
    /\ error = Some([name |-> "InternalServerError"])

(***************************************************************************)
(* Properties of the request lookup dispatches.                            *)
(***************************************************************************)
\* the first request of a lookup made without an override hook
PlainLookup == op = "lookup" /\ ~options.overwrite /\ Len(requests) >= 1

\* C11: a lookup with a partition key only dispatches a query whose
\* KeyConditionExpression is "#pk = :pk", whose ExpressionAttributeNames is exactly
\* {"#pk": partition-key field} and whose ExpressionAttributeValues is exactly
\* {":pk": the partition-key codec's encoding of the given value}.
C11_PartitionKeyOnlyQuery ==
    (PlainLookup /\ ~IsDefined(options.condition)) =>
        /\ requests[1].KeyConditionExpression = "#pk = :pk"
        /\ requests[1].ExpressionAttributeNames = ("#pk" :> "type")
        /\ requests[1].ExpressionAttributeValues = (":pk" :> [S |-> "soap"])

\* the sort-key clause as the claim spells it
ClaimedClause(matcher) ==
    IF matcher = "between" THEN "#sk between :from and :to"
    ELSE IF matcher = "begins_with" THEN "begins_with(#sk, :value)"
    ELSE "#sk " \o matcher \o " :value"

\* the operand bindings as the claim spells them; both sort keys are number fields
ClaimedOperands(condition) ==
    IF condition.matcher = "between"
    THEN (":from" :> [N |-> String(condition.value[1])])
         @@ (":to" :> [N |-> String(condition.value[2])])
    ELSE (":value" :> [N |-> String(condition.value[1])])

\* C12: a lookup with a sort-key condition renders KeyConditionExpression as
\* "#pk = :pk and " followed by "#sk <op> :value", "#sk between :from and :to" or
\* "begins_with(#sk, :value)"; ExpressionAttributeNames maps #sk to the index's sort
\* key, ExpressionAttributeValues binds :value (or :from and :to) to the sort-key
\* codec's encoding of the operands, and IndexName is the name of a named index.
C12_SortKeyConditionQuery ==
    (PlainLookup /\ IsDefined(options.condition)) =>
        /\ requests[1].KeyConditionExpression
               = "#pk = :pk and " \o ClaimedClause(options.condition[1].matcher)
        /\ requests[1].ExpressionAttributeNames
               = ("#pk" :> "type") @@ ("#sk" :> index.keyspec[2])
        /\ requests[1].ExpressionAttributeValues
               = (":pk" :> [S |-> "soap"])
                 @@ ClaimedOperands(options.condition[1])
        /\ requests[1].IndexName = index.name

HasPrefix(text, p) == Len(text) >= Len(p) /\ SubSeq(text, 1, Len(p)) = p

Occurs(part, text) ==
    \E i \in 1..Len(text) :
        i + Len(part) - 1 <= Len(text) /\ SubSeq(text, i, i + Len(part) - 1) = part

\* every "#" and every ":" of the expression starts a placeholder with the reserved prefix
PlaceholdersPrefixed(expression) ==
    \A i \in 1..Len(expression) :
        SubSeq(expression, i, i) \in {"#", ":"} =>
            /\ i + 7 <= Len(expression)
            /\ SubSeq(expression, i + 1, i + 7) = "dynamo_"

\* the placeholders of the override hook of the model
HookNames == {"#sk"}
HookValues == {":value"}

SerializeOf(codec) ==
    op = "codec" /\ codecCall.fn = "serialize" /\ codecCall.codec = codec

DeserializeOf(codec) ==
    op = "codec" /\ codecCall.fn = "deserialize" /\ codecCall.codec = codec

\* the wire map the product codec is to produce for a record
ProductMap(r) ==
    [M |-> [type |-> [S |-> r.object.type.string],
            code |-> [N |-> Numeral(r.object.code.number)],
            price |-> [N |-> Numeral(r.object.price.number)]]]

\* C14: for the product codec {type: string, code: number, price: number} and every
\* record r of that type, serialize(r) is a Map with exactly type as a String, code
\* as a Number in decimal text and price as a Number, and deserialize(serialize(r)) = r.
C14_ProductRoundTrip ==
    (SerializeOf(record("product")) /\ codecCall.arg \in Entities("product")) =>
        /\ codecOut = Return(ProductMap(codecCall.arg))
        /\ pc # "failed"
        /\ (pc = "done" => codecBack = Return(codecCall.arg))

C14_Witness ==
    /\ SerializeOf(record("product"))
    /\ pc = "done"
    /\ codecCall.arg = Obj([type |-> Str("soap"), code |-> Num(0), price |-> Num(7)])
    /\ codecOut.return.M.code = [N |-> "0"]
    /\ codecBack = Return(codecCall.arg)

\* C15: every predefined field codec (string, number, boolean, date, list of string,
\* optional, with the value present and absent) gives back the value it was handed
\* when deserialize is applied to what serialize returned, for every value of its
\* domain; optional turns an absent value into the Null variant and the Null variant
\* into an absent value.
C15_FieldCodecsRoundTrip ==
    /\ (/\ op = "codec"
        /\ codecCall.fn = "serialize"
        /\ codecCall.codec \in FieldCodecs
        /\ codecCall.arg \in Domain(codecCall.codec)) =>
            /\ pc # "failed"
            /\ (pc = "done" => codecBack = Return(codecCall.arg))
            /\ (codecCall.codec.kind = "optional" /\ codecCall.arg = Undefined) =>
                    codecOut = Return([NULL |-> TRUE])
    /\ (/\ op = "codec"
        /\ codecCall.fn = "deserialize"
        /\ codecCall.codec.kind = "optional"
        /\ codecCall.arg = [NULL |-> TRUE]) => codecOut = Return(Undefined)

C15_Witness ==
    /\ SerializeOf(optional(number))
    /\ pc = "done"
    /\ codecCall.arg = Num(-7)
    /\ codecOut = Return([N |-> "-7"])
    /\ codecBack = Return(Num(-7))

\* C16: when the wire map handed to a record codec's deserialize lacks the entry of a
\* field that has a codec, deserialize completes without an error and the record has
\* no value for that field, whatever the field's codec is (string, number, list,
\* nested record, optional).
C16_MissingEntryLeavesFieldUndefined ==
    \A self \in DOMAIN WireMaps :
        \A name \in DOMAIN WireMaps[self] :
            (/\ DeserializeOf(record(self))
             /\ codecCall.arg = [M |-> Lacking(WireMaps[self], name)]) =>
                /\ ~Threw(codecOut)
                /\ DOMAIN codecOut.return.object = DOMAIN WireMaps[self] \ {name}

\* C17: the number codec's deserialize raises an error when the text of the Number
\* variant is not a decimal number; it returns neither NaN nor 0 for it.
C17_NumberRejectsMalformedText ==
    (DeserializeOf(number) /\ codecCall.arg \in {[N |-> text] : text \in MalformedTexts}) =>
        Threw(codecOut)

\* the codecs that own one tag
TagOwners == {string, number, boolean, date, list(string)} \cup RecordCodecs

\* C18: a field codec's deserialize raises an error when the wire value carries
\* another tag than the codec's; the field is never decoded to undefined, dropped or
\* defaulted without an error.
C18_WrongTagRaises ==
    /\ (/\ op = "codec"
        /\ codecCall.fn = "deserialize"
        /\ codecCall.codec \in TagOwners
        /\ codecCall.arg # Undefined
        /\ codecCall.codec.type \notin DOMAIN codecCall.arg) => Threw(codecOut)
    /\ \A self \in DOMAIN WireMaps :
        \A name \in DOMAIN WireMaps[self] :
            (/\ DeserializeOf(record(self))
             /\ codecCall.arg =
                    [M |-> Replaced(WireMaps[self], name, OtherTag(WireMaps[self][name]))]) =>
                Threw(codecOut)

\* a SerializationError of the given verb that names a field of the record codec and
\* carries what the field's codec threw
IsFieldError(e, self, verb) ==
    /\ e.name = "SerializationError"
    /\ \E i \in DOMAIN Schemas[self] :
        /\ Schemas[self][i].codec # Undefined
        /\ e.message = "Failed to " \o verb \o " field: " \o Schemas[self][i].field
    /\ e.cause.name \in {"TypeError", "SerializationError"}

C19_NestedWitness ==
    /\ DeserializeOf(record("parcel"))
    /\ codecCall.arg = ParcelOfDamagedContent
    /\ pc = "failed"
    /\ error = Some(SerializationError("Failed to deserialize field: content",
                    SerializationError("Failed to deserialize field: price", TypeError)))

\* the fields of a record codec that have a codec
CodedFields(self) ==
    {Schemas[self][i].field : i \in {j \in DOMAIN Schemas[self] :
                                        Schemas[self][j].codec # Undefined}}

SerializedRecord(self) ==
    SerializeOf(record(self)) /\ codecCall.arg # Undefined /\ ~Threw(codecOut)

\* C20: the Map a record codec's serialize produces has an entry for a field only if
\* the field has a codec and the record's value for it is not undefined.
C20_EntryOnlyForDefinedValues ==
    \A self \in DOMAIN Schemas :
        SerializedRecord(self) =>
            \A name \in DOMAIN codecOut.return.M :
                name \in CodedFields(self) /\ name \in DOMAIN codecCall.arg.object

\* C20, amended: the Map a record codec's serialize produces has an entry for exactly
\* the fields that have a codec; a field without a codec has none, and a field whose
\* value in the record is undefined has the entry its codec makes of undefined: the
\* Null variant for optional, a String without text for string, the Number
\* "undefined" for number.
C20_EntryForEveryCodedField ==
    \A self \in DOMAIN Schemas :
        SerializedRecord(self) =>
            /\ DOMAIN codecOut.return.M = CodedFields(self)
            /\ \A i \in DOMAIN Schemas[self] :
                (/\ Schemas[self][i].codec # Undefined
                 /\ Schemas[self][i].field \notin DOMAIN codecCall.arg.object) =>
                    codecOut.return.M[Schemas[self][i].field] =
                        CASE Schemas[self][i].codec.kind = "optional" -> [NULL |-> TRUE]
                          [] Schemas[self][i].codec.kind = "raw" ->
                                Void(Schemas[self][i].codec.type)
                          [] Schemas[self][i].codec.kind = "number" -> [N |-> "undefined"]

C20_Witness ==
    /\ SerializedRecord("parcel")
    /\ codecCall.arg = Without(parcel, "note")
    /\ codecOut.return.M.note = [NULL |-> TRUE]
    /\ "scratch" \in DOMAIN codecCall.arg.object
    /\ "scratch" \notin DOMAIN codecOut.return.M

(***************************************************************************)
(* Properties of the generators of list / lookup and of persist's input.   *)
(***************************************************************************)
\* C22: list and lookup issue no backend call before the consumer's first pull, and
\* the request of the next page is issued only when every item of the pages so far
\* has been yielded and the consumer has pulled again; while the consumer does not
\* pull, no request is issued.
C22_PagesFetchedOnDemand ==
    /\ [](pulls = 0 => requests = <<>>)
    /\ [][Len(requests') > Len(requests) =>
            /\ pulls = Len(yielded) + 1
            /\ Len(pages) = Len(requests)
            /\ Len(yielded) = Len(PageItems(pages))]_vars

C22_Witness ==
    /\ op \in {"list", "lookup"}
    /\ Len(requests) = 2
    /\ Len(pages) = 1
    /\ Len(yielded) = Len(pages[1].Items)
    /\ Len(yielded) > 0
    /\ pulls = Len(yielded) + 1

\* C23: persist pulls its input as it goes: when the k-th bulk-write call is issued
\* at most 25 * k records have been pulled, and no record of the next chunk is pulled
\* before that call has resolved.
C23_PersistPullsLazily ==
    [][op' = "persist" =>
        /\ Len(writeCalls') > Len(writeCalls) => pulled' <= 25 * Len(writeCalls')
        /\ pulled' > pulled =>
            /\ inflight = 0
            /\ Len(applied) = Len(writeCalls)
            /\ pulled < 25 * (Len(writeCalls) + 1)]_vars

C23_Witness ==
    /\ op = "persist"
    /\ input = MaxRecords
    /\ Len(writeCalls) = 2
    /\ inflight = 1
    /\ pulled = 50

\* C28: persist over an empty input issues no bulk-write call, and no bulk-write call
\* carries an empty item list, whatever the input, a multiple of 25 included.
C28_NoEmptyBulkWrite ==
    op = "persist" =>
        /\ input = 0 => writeCalls = <<>>
        /\ \A i \in 1..Len(writeCalls) : Len(WriteItems(i)) > 0
        /\ (pc = "done" /\ input % 25 = 0) => Len(writeCalls) = input \div 25

C28_Witness ==
    /\ op = "persist"
    /\ pc = "done"
    /\ input = 50
    /\ Len(writeCalls) = 2
    /\ Len(WriteItems(2)) = 25

C28_EmptyWitness == op = "persist" /\ pc = "done" /\ input = 0 /\ writeCalls = <<>>

\* C24: the override hook of list / lookup is applied exactly once per invocation, to
\* the request as list / lookup built it for the first page; what it returns is the
\* first backend call, unchanged, and every follow-up request of the invocation equals
\* it except for ExclusiveStartKey and Limit.
C24_HookAppliedOnceToFirstRequest ==
    /\ (op \in {"list", "lookup", "loop"} /\ (requests = <<>> \/ ~options.overwrite)) =>
            hookCalls = <<>>
    /\ (op \in {"list", "lookup"} /\ options.overwrite /\ requests # <<>>) =>
            /\ Len(hookCalls) = 1
            /\ hookCalls[1].TableName = "ProductTable"
            /\ hookCalls[1].IndexName = index.name
            /\ hookCalls[1].ExclusiveStartKey = options.startFrom
            /\ hookCalls[1].Limit = options.limit
            /\ "FilterExpression" \notin DOMAIN hookCalls[1]
            /\ op = "lookup" =>
                    {"KeyConditionExpression", "ExpressionAttributeNames",
                     "ExpressionAttributeValues"} \subseteq DOMAIN hookCalls[1]
            /\ requests[1] = FilterHook(hookCalls[1])
            /\ \A k \in 2..Len(requests) :
                /\ DOMAIN requests[k] = DOMAIN requests[1]
                /\ \A name \in DOMAIN requests[1] \ {"ExclusiveStartKey", "Limit"} :
                    requests[k][name] = requests[1][name]

C24_Witness ==
    /\ op = "lookup"
    /\ options.overwrite
    /\ Len(requests) = 2
    /\ Len(hookCalls) = 1
    /\ requests[2].FilterExpression = "#sk > :value"
    /\ requests[2].ExclusiveStartKey # requests[1].ExclusiveStartKey

\* C27: each follow-up page request of a list / lookup call with limit L carries Limit
\* = L minus the number of items yielded so far in the invocation, which is at least 1;
\* a follow-up request goes out only when the previous page carried a continuation
\* marker; without a limit no follow-up request carries a Limit.
C27_FollowUpLimitIsRemainder ==
    [][(op' \in {"list", "lookup"} /\ requests # <<>> /\ Len(requests') > Len(requests)) =>
          /\ Len(pages) = Len(requests)
          /\ IsDefined(pages[Len(pages)].LastEvaluatedKey)
          /\ requests'[Len(requests')].ExclusiveStartKey = pages[Len(pages)].LastEvaluatedKey
          /\ IF IsDefined(options.limit)
             THEN /\ requests'[Len(requests')].Limit = Some(options.limit[1] - Len(yielded))
                  /\ options.limit[1] - Len(yielded) >= 1
             ELSE requests'[Len(requests')].Limit = Undefined]_vars

C27_Witness ==
    /\ op \in {"list", "lookup"}
    /\ options.limit = Some(MaxLimit)
    /\ Len(requests) = 3
    /\ Len(yielded) = 2
    /\ requests[2].Limit = Some(MaxLimit - 1)
    /\ requests[3].Limit = Some(MaxLimit - 2)

C27_NoLimitWitness ==
    /\ op \in {"list", "lookup"}
    /\ options.limit = Undefined
    /\ Len(requests) = 2
    /\ requests[2].Limit = Undefined
    /\ Len(yielded) > 0

\* C26: when the backend call for a page of a list / lookup sequence fails, or an item
\* of a page fails to decode, the failure is raised on the consumer's pending pull;
\* the items before the failure point have been yielded, in order, none after it is,
\* the sequence is finished and the invocation issues no further backend call.
C26_FailureEndsSequenceAtFailurePoint ==
    /\ [](op \in {"list", "lookup"} =>
            /\ IsPrefix(yielded, Decoded(PageItems(pages)))
            /\ pc = "failed" =>
                /\ IsDefined(error)
                /\ pulls = Len(yielded) + 1
                /\ yielded = Decoded(PageItems(pages))
                /\ \/ /\ Len(requests) = Len(pages) + 1
                      /\ error = raised
                      /\ Len(yielded) = Len(PageItems(pages))
                   \/ /\ Len(requests) = Len(pages)
                      /\ Len(yielded) < Len(PageItems(pages))
                      /\ Threw(deserialize(index.serializer.self,
                                           [M |-> PageItems(pages)[Len(yielded) + 1]])))
    /\ [][(op \in {"list", "lookup"} /\ pc = "failed" /\ op' = op) =>
            /\ requests' = requests
            /\ yielded' = yielded
            /\ pc' = "failed"]_vars

\* the second page's call fails after the first page was yielded
C26_Witness ==
    /\ op \in {"list", "lookup"}
    /\ pc = "failed"
    /\ Len(requests) = 2
    /\ Len(pages) = 1
    /\ Len(yielded) = Len(pages[1].Items)
    /\ Len(yielded) > 0
    /\ error = raised

\* the second item of a page of three fails to decode, after the first was yielded
C26_DecodeWitness ==
    /\ op \in {"list", "lookup"}
    /\ pc = "failed"
    /\ Len(pages) = 1
    /\ Len(requests) = 1
    /\ Len(pages[1].Items) = 3
    /\ Len(yielded) = 1
    /\ IsFieldError(error[1], index.serializer.self, "deserialize")

\* C29: when describeTable succeeds but reports a status other than ACTIVE, the
\* invocation of createTableIfNeeded issues no createTable call and waits for the
\* table; it returns normally only after the backend has reported the table active.
C29_NotActiveTableAwaitedNotCreated ==
    (op = "create" /\ ddl[1].outcome \in {"CREATING", "UPDATING"}) =>
        /\ \A i \in 1..Len(ddl) : ddl[i].call # "createTable"
        /\ Len(ddl) = 2
        /\ ddl[2] \in {[call |-> "waitFor",
                        params |-> [state |-> "tableExists", TableName |-> "ProductTable"],
                        outcome |-> o] : o \in {"pending", "ACTIVE", "ResourceNotReady"}}
        /\ pc \in {"wait_await", "done", "failed"}
        /\ pc = "wait_await" <=> ddl[2].outcome = "pending"
        /\ pc = "done" <=> ddl[2].outcome = "ACTIVE"
        /\ pc = "done" => tableStatus = "ACTIVE"

C29_Witness ==
    /\ op = "create"
    /\ pc = "done"
    /\ ddl[1].outcome = "CREATING"
    /\ Len(ddl) = 2
    /\ ddl[2].outcome = "ACTIVE"
    /\ creates = 0

C29_WaitingWitness ==
    /\ op = "create"
    /\ pc = "wait_await"
    /\ ddl[1].outcome = "UPDATING"
    /\ tableStatus = "UPDATING"

\* C30: two createTableIfNeeded invocations for the same table that interleave at
\* their backend calls, on a backend where the table does not exist and where creating
\* an existing table is an error, both complete normally with the table active; none
\* of them fails because the other one created the table.
C30_InterleavedInvocationsBothSucceed ==
    op = "race" =>
        /\ ~(pc = "failed" /\ error = Some(InUse))
        /\ ~(rival.pc = "failed" /\ rival.error = Some(InUse))
        /\ (pc = "done" /\ rival.pc = "done") => tableStatus = "ACTIVE"

\* both invocations found no table and both asked for its creation
C30_BothCreate ==
    /\ op = "race"
    /\ creates = 2
    /\ pc = "failed"
    /\ error = Some(InUse)
    /\ rival.pc = "done"
    /\ tableStatus = "ACTIVE"

\* C21: every record that list / lookup of an index made with an explicit projection P
\* yields has only fields of P, of the table's key and of the index's key, whatever
\* other attributes the backend item carries; each field is decoded by the codec the
\* parent record codec has for it, and the parent's mapping stays as it was declared.
C21_ProjectedIndexYieldsProjection ==
    /\ Schemas[serializer] = <<[field |-> "type", codec |-> string],
                               [field |-> "code", codec |-> number],
                               [field |-> "price", codec |-> number]>>
    /\ \A ix \in Indexes \cup UNION {Range(l) : l \in IndexLists} :
        \A name \in Range(fields(ix.serializer.self)) :
            /\ serializers(ix.serializer.self, name) = serializers(serializer, name)
            /\ IsDefined(ix.projection) =>
                   name \in Range(ix.projection[1]) \cup Range(keyspec) \cup Range(ix.keyspec)
    /\ (op \in {"list", "lookup"} /\ IsDefined(index.projection)) =>
            \A k \in DOMAIN yielded :
                /\ DOMAIN yielded[k].object \subseteq
                       Range(index.projection[1]) \cup Range(keyspec) \cup Range(index.keyspec)
                /\ \A name \in DOMAIN yielded[k].object :
                       Return(yielded[k].object[name]) =
                           CodecDeserialize(serializers(serializer, name),
                                            PageItems(pages)[k][name])

\* an index on the type that projects the keys only yields records without the price
\* the items carry
C21_Witness ==
    /\ op \in {"list", "lookup"}
    /\ index.name = Some("typeIndex")
    /\ index.projection = Some(<<>>)
    /\ Len(yielded) >= 2
    /\ "price" \in DOMAIN PageItems(pages)[2]
    /\ DOMAIN yielded[2].object = {"type", "code"}

\* the projection each index of the model was created with
GivenProjection ==
    [priceIndex |-> Undefined,
     typeIndex |-> Some(<<>>),
     typePriceIndex |-> Some(<<"price", "code">>),
     priceKeysIndex |-> Some(<<"price">>)]

\* the fields of the given projection that are no key of the table or of the index
NonKeyFields(ix) ==
    Range(GivenProjection[ix.name[1]][1]) \ (Range(keyspec) \cup Range(ix.keyspec))

\* the index declarations of a createTable request, local or global
DeclaredIndexes(request, type) ==
    IF type = "LOCAL" THEN Range(request.LocalSecondaryIndexes)
    ELSE Range(request.GlobalSecondaryIndexes)

\* C25: in the table specification built for createTableIfNeeded every local and every
\* global index declares ProjectionType ALL when it was created without a projection,
\* KEYS_ONLY when the projection given has no field besides keys of the table and of
\* the index, and INCLUDE otherwise; NonKeyAttributes is there exactly for INCLUDE, and
\* lists the fields of the given projection that are no key of the table or the index.
C25_ProjectionTypeFollowsGivenProjection ==
    op \in {"create", "race"} =>
        \A i \in DOMAIN ddl :
            ddl[i].call = "createTable" =>
                /\ Cardinality(DeclaredIndexes(ddl[i].params, "LOCAL"))
                       + Cardinality(DeclaredIndexes(ddl[i].params, "GLOBAL")) = Len(indexes)
                /\ \A ix \in Range(indexes) :
                    \E d \in DeclaredIndexes(ddl[i].params, ix.type) :
                        /\ d.IndexName = ix.name[1]
                        /\ d.Projection.ProjectionType =
                               IF GivenProjection[ix.name[1]] = Undefined THEN "ALL"
                               ELSE IF NonKeyFields(ix) = {} THEN "KEYS_ONLY"
                               ELSE "INCLUDE"
                        /\ IsDefined(d.Projection.NonKeyAttributes) <=>
                               d.Projection.ProjectionType = "INCLUDE"
                        /\ d.Projection.ProjectionType = "INCLUDE" =>
                            /\ Range(d.Projection.NonKeyAttributes) = NonKeyFields(ix)
                            /\ Len(d.Projection.NonKeyAttributes)
                                   = Cardinality(NonKeyFields(ix))

\* a createTable request with a local index that projects everything and a global
\* index that includes the price
C25_Witness ==
    /\ op = "create"
    /\ Len(ddl) >= 2
    /\ ddl[2].call = "createTable"
    /\ indexes = <<priceIndex, typePriceIndex>>
    /\ ddl[2].params.LocalSecondaryIndexes[1].Projection = [ProjectionType |-> "ALL",
                                                             NonKeyAttributes |-> Undefined]
    /\ ddl[2].params.GlobalSecondaryIndexes[1].Projection =
           [ProjectionType |-> "INCLUDE", NonKeyAttributes |-> <<"price">>]

\* a createTable request whose indexes project keys only
C25_KeysOnlyWitness ==
    /\ op = "create"
    /\ Len(ddl) >= 2
    /\ ddl[2].call = "createTable"
    /\ indexes = <<typeIndex, priceKeysIndex>>
    /\ ddl[2].params.LocalSecondaryIndexes[1].Projection.ProjectionType = "KEYS_ONLY"
    /\ ddl[2].params.GlobalSecondaryIndexes[1].Projection.ProjectionType = "KEYS_ONLY"

====
